---------------------------- MODULE Spec2Model ----------------------------
(***************************************************************************)
(* protosort: Sort(content, opts) reorders the top-level declarations of a *)
(* proto3 file.  The model follows the code stage by stage:                *)
(*   isProto2 / ScanFile  ->  header split, BuildRefCounts, BuildRefGraph  *)
(*   ->  classifyServiceAndRPC and section classification  ->  ordering    *)
(*   (emitWithHelpers)  ->  Emit.                                          *)
(*                                                                         *)
(* Text is a sequence of lexical tokens:                                   *)
(*   [tk |-> "nl"]                          a newline byte                 *)
(*   [tk |-> "com", text |-> t]             a // line comment, without its *)
(*                                          newline                        *)
(*   [tk |-> "decl", kind, name, refs, rpcs] the verbatim text of one      *)
(*                                          declaration, keyword through   *)
(*                                          terminator                     *)
(*   [tk |-> "junk"]                        a token that starts no         *)
(*                                          declaration and no comment     *)
(* A declaration token carries what the code's regular expressions read    *)
(* out of it: the declared name, the field type names in the order the     *)
(* extractor meets them, and the rpc entries of a service.                 *)
(***************************************************************************)
EXTENDS Integers, Sequences, FiniteSets, TLC

VARIABLES
    policy,      \* "outgoing" (Sort of part_002) or "incoming" (Sort of part_001)
    content,     \* the text handed to Sort
    opts,        \* Options
    pc,          \* "start" before Sort is called, "done" after it returned,
                 \* "again" / "same" after a second call on the output / the input
    blocks,      \* ScanFile's blocks after comment processing
    err,         \* "nil", "proto2" or "parse"
    hdr,         \* the header blocks: syntax, package, options, imports, extends
    body,        \* bodyBlocks: messages, enums and services in file order
    refCounts,   \* BuildRefCounts(bodyBlocks)
    refGraph,    \* BuildRefGraph(bodyBlocks)
    parts,       \* services, rpcMessages, remaining, core, helper, unref: indices into body
    ordered,     \* the final ordered list: indices into body
    output,      \* the text Sort returns
    warnings,    \* the warnings Sort returns
    second,      \* what the second call of Sort computed and returned
    serviceText,    \* the lines of a service declaration handed to SortRPCsInService
    sortedText,  \* the lines SortRPCsInService returns
    verdict,     \* what verifyContentIntegrity returned: "none" before the call
    cursor       \* the scanner's pos when a ScanFile call on a byte string ended

vars == <<policy, content, opts, pc, blocks, err, hdr, body, refCounts,
          refGraph, parts, ordered, output, warnings, second, serviceText, sortedText,
          verdict, cursor>>

-----------------------------------------------------------------------------
(* Bounds of the model *)

\* the most body declarations (message, enum, service) of an input file
MaxBlocks == 3
\* the most field type names a message carries
MaxFields == 2
\* the most type names (field types, rpc request and response types) of a file
MaxRefs == 3

\* the bytes behind the keyword of a byte string handed to ScanFile
MaxBytes == 4

-----------------------------------------------------------------------------
(* Sequences *)

Range(s) == {s[i] : i \in DOMAIN s}

RECURSIVE SeqFilter(_, _)
\* the subsequence of the elements of s that are in the set keep
SeqFilter(s, keep) ==
    IF s = <<>> THEN <<>>
    ELSE IF Head(s) \in keep THEN <<Head(s)>> \o SeqFilter(Tail(s), keep)
         ELSE SeqFilter(Tail(s), keep)

RECURSIVE Dedup(_)
\* s with every element kept at its first occurrence only
Dedup(s) ==
    IF s = <<>> THEN <<>>
    ELSE LET d == Dedup(SubSeq(s, 1, Len(s) - 1))
         IN IF s[Len(s)] \in Range(d) THEN d ELSE Append(d, s[Len(s)])

RECURSIVE Flatten(_)
Flatten(ss) == IF ss = <<>> THEN <<>> ELSE Head(ss) \o Flatten(Tail(ss))

RECURSIVE Perms(_)
\* every sequence that lists each element of S once
Perms(S) ==
    IF S = {} THEN {<<>>}
    ELSE UNION {{<<x>> \o p : p \in Perms(S \ {x})} : x \in S}

-----------------------------------------------------------------------------
(* Names and their byte order *)

\* identifiers in ascending byte order, as Go's string < compares them
NameOrder == <<"", "A", "B", "C", "D", "E", "F", "G", "H", "S", "T", "U", "V", "W", "X">>

Rank(n) == CHOOSE i \in DOMAIN NameOrder : NameOrder[i] = n

NameLess(a, b) == Rank(a) < Rank(b)

\* type names that contain a '.', with their last component
Dotted == {"p.A", "p.B"}
HasDot(t) == t \in Dotted

isScalarType(name) ==
    name \in {"double", "float", "int32", "int64", "uint32", "uint64", "sint32",
              "sint64", "fixed32", "fixed64", "sfixed32", "sfixed64", "bool",
              "string", "bytes"}

-----------------------------------------------------------------------------
(* Tokens and text *)

NL == [tk |-> "nl"]
Com(t) == [tk |-> "com", text |-> t]
Junk == [tk |-> "junk"]
DeclTok(kind, name, refs, rpcs) ==
    [tk |-> "decl", kind |-> kind, name |-> name, refs |-> refs, rpcs |-> rpcs]

\* a message, enum, service or extend whose opening brace the declaration
\* itself does not close: "message A {"
OpenTok(kind, name) ==
    [tk |-> "open", kind |-> kind, name |-> name, refs |-> <<>>, rpcs |-> <<>>]

\* a closing brace on its own: "}"
CloseTok == [tk |-> "close"]

RPC(name, req, res) == [Name |-> name, RequestType |-> req, ResponseType |-> res]

\* a syntax statement: syntax = "value"; written with the quote character quote
SyntaxTok(value, quote) ==
    [tk |-> "decl", kind |-> "syntax", name |-> value, refs |-> <<>>, rpcs |-> <<>>,
     quote |-> quote]

\* a comment whose text holds the characters "proto2", quotes included
Proto2Note == "// was \"proto2\""

\* strings.Contains(t, `"proto2"`) for the text of one token
ContainsProto2(t) ==
    \/ t.tk = "decl" /\ t.kind = "syntax" /\ t.name = "proto2" /\ t.quote = "\""
    \/ t.tk = "com" /\ t.text = Proto2Note

\* strings.HasPrefix(t, "syntax") for the text of one token
HasPrefixSyntax(t) == t.tk = "decl" /\ t.kind = "syntax"

\* strings.Split(s, "\n"): the lines of s, one more than its newlines
Split(s) ==
    LET F[i \in 0..Len(s)] ==
            IF i = 0 THEN << <<>> >>
            ELSE IF s[i] = NL THEN Append(F[i - 1], <<>>)
                 ELSE [F[i - 1] EXCEPT ![Len(F[i - 1])] = Append(@, s[i])]
    IN F[Len(s)]

RECURSIVE Join(_)
\* strings.Join(lines, "\n")
Join(lines) ==
    IF lines = <<>> THEN <<>>
    ELSE IF Len(lines) = 1 THEN lines[1]
         ELSE lines[1] \o <<NL>> \o Join(Tail(lines))

HasSuffixNL(s) == s # <<>> /\ s[Len(s)] = NL

\* a trim that takes nothing off
TrimNothing(s) == s

RECURSIVE TrimRightNL(_)
\* strings.TrimRight(s, "\n")
TrimRightNL(s) == IF HasSuffixNL(s) THEN TrimRightNL(SubSeq(s, 1, Len(s) - 1)) ELSE s

\* strings.TrimSpace(line) == "" for a line of the text: it holds no token
BlankLine(line) == line = <<>>

RECURSIVE TrimLeftNL(_)
TrimLeftNL(s) == IF s # <<>> /\ s[1] = NL THEN TrimLeftNL(Tail(s)) ELSE s

\* strings.TrimSpace(s): newlines are the only white space of the text
TrimSpace(s) == TrimRightNL(TrimLeftNL(s))

-----------------------------------------------------------------------------
(* Block: part_004 *)

Block(kind, name, comments, declText) ==
    [Kind |-> kind, Name |-> name, Comments |-> comments, DeclText |-> declText,
     Section |-> "header", Consumer |-> "", RPCs |-> <<>>]

\* the declaration token a block's DeclText starts with
DeclOf(b) == b.DeclText[1]

-----------------------------------------------------------------------------
(* scanner.go: ScanFile *)

IsCommentOrSpace(t) == t.tk \in {"nl", "com"}

RECURSIVE collectComments(_, _)
\* the position after the run of whitespace and comments that starts at pos
collectComments(text, pos) ==
    IF pos <= Len(text) /\ IsCommentOrSpace(text[pos])
    THEN collectComments(text, pos + 1)
    ELSE pos

\* the position after the trailing // comment that follows a declaration's
\* terminator on its line; skipToEndOfLine takes the newline with it
consumeTrailingComment(text, pos) ==
    IF pos <= Len(text) /\ text[pos].tk = "com"
    THEN IF pos + 1 <= Len(text) /\ text[pos + 1] = NL THEN pos + 2 ELSE pos + 1
    ELSE pos

\* matchKeyword: the token at pos starts with a declaration keyword
matchKeyword(text, pos) == text[pos].tk \in {"decl", "open"}

RECURSIVE readBracedBlock(_, _, _)
\* readBracedBlock behind an opening brace: the position after the brace that
\* brings depth back to 0, or the end of the text if none does
readBracedBlock(text, pos, depth) ==
    IF pos > Len(text) THEN pos
    ELSE IF text[pos].tk = "open" THEN readBracedBlock(text, pos + 1, depth + 1)
    ELSE IF text[pos].tk = "close"
         THEN IF depth = 1 THEN pos + 1 ELSE readBracedBlock(text, pos + 1, depth - 1)
    ELSE readBracedBlock(text, pos + 1, depth)

\* extractDeclName: the name the declaration text declares
extractDeclName(tok) == tok.name

\* readDeclaration at pos (a declaration keyword is there): the block and the
\* position after it
readDeclaration(text, pos) ==
    LET read == IF text[pos].tk = "open" THEN readBracedBlock(text, pos + 1, 1)
                ELSE pos + 1
        after == consumeTrailingComment(text, read)
    IN [block |-> Block(text[pos].kind, extractDeclName(text[pos]), <<>>,
                        SubSeq(text, pos, after - 1)),
        pos |-> after]

RECURSIVE scan(_, _, _)
\* the scanner's loop from pos on, with the blocks read so far
scan(text, pos, acc) ==
    IF pos > Len(text) THEN [ok |-> TRUE, blocks |-> acc, pos |-> pos]
    ELSE LET p == collectComments(text, pos)
             comments == SubSeq(text, pos, p - 1)
         IN IF p > Len(text)
            THEN [ok |-> TRUE,
                  blocks |-> IF \E i \in DOMAIN comments : comments[i].tk = "com"
                             THEN Append(acc, Block("comment", "", comments, <<>>))
                             ELSE acc,
                  pos |-> p]
            ELSE IF ~matchKeyword(text, p)
                 THEN [ok |-> FALSE, blocks |-> <<>>, pos |-> p]
                 ELSE LET d == readDeclaration(text, p)
                      IN scan(text, d.pos,
                              Append(acc, [d.block EXCEPT !.Comments = comments]))

ScanFile(text) == scan(text, 1, <<>>)

\* ExtractRPCs: the rpc entries of a service block, nothing for any other kind
ExtractRPCs(b) == IF b.Kind = "service" THEN DeclOf(b).rpcs ELSE <<>>

\* ExtractFieldTypes: the type names a message or extend block's fields use,
\* each once, without dotted names and scalar types
ExtractFieldTypes(b) ==
    IF b.Kind \notin {"message", "extend"} THEN <<>>
    ELSE LET all == DeclOf(b).refs
             keep == {t \in Range(all) : ~HasDot(t) /\ t # "" /\ ~isScalarType(t)}
         IN Dedup(SeqFilter(all, keep))

-----------------------------------------------------------------------------
(* part_002: isProto2 *)

\* the first line whose text starts with the word syntax decides, by whether
\* it holds "proto2" in double quotes
isProto2(text) ==
    LET lines == Split(text)
        starts == {i \in DOMAIN lines : lines[i] # <<>> /\ HasPrefixSyntax(lines[i][1])}
    IN IF starts = {} THEN FALSE
       ELSE LET i == CHOOSE j \in starts : \A k \in starts : j <= k
            IN \E t \in DOMAIN lines[i] : ContainsProto2(lines[i][t])

-----------------------------------------------------------------------------
(* emit.go *)

RECURSIVE DropLeadingBlank(_)
DropLeadingBlank(lines) ==
    IF lines # <<>> /\ BlankLine(Head(lines)) THEN DropLeadingBlank(Tail(lines))
    ELSE lines

RECURSIVE DropTrailingBlank(_)
DropTrailingBlank(lines) ==
    IF lines # <<>> /\ BlankLine(lines[Len(lines)])
    THEN DropTrailingBlank(SubSeq(lines, 1, Len(lines) - 1))
    ELSE lines

\* cleanComments: the comment text without its leading and trailing blank lines
cleanComments(s) ==
    IF s = <<>> THEN <<>>
    ELSE Join(DropTrailingBlank(DropLeadingBlank(Split(s))))

WithNL(s) == IF HasSuffixNL(s) THEN s ELSE s \o <<NL>>

\* writeBlockWithComments: what it appends to the builder
writeBlockWithComments(b) ==
    LET comments == cleanComments(b.Comments)
    IN (IF comments # <<>> THEN WithNL(comments) ELSE <<>>) \o WithNL(b.DeclText)

RECURSIVE writeEach(_)
\* a newline and then the block, for every block of the list
writeEach(bs) ==
    IF bs = <<>> THEN <<>>
    ELSE <<NL>> \o writeBlockWithComments(Head(bs)) \o writeEach(Tail(bs))

RECURSIVE writeImports(_, _)
writeImports(bs, i) ==
    IF i > Len(bs) THEN <<>>
    ELSE (IF i > 1 THEN <<NL>> ELSE <<>>) \o writeBlockWithComments(bs[i])
         \o writeImports(bs, i + 1)

\* Emit: syntax and pkg are sequences of at most one block (a nil pointer is <<>>)
Emit(headerComments, syntax, pkg, options, imports, extends, bodyBlocks) ==
    LET hc == cleanComments(headerComments)
        result ==
            (IF hc # <<>> THEN WithNL(hc) ELSE <<>>)
            \o (IF syntax # <<>> THEN WithNL(syntax[1].DeclText) ELSE <<>>)
            \o (IF pkg # <<>> THEN <<NL>> \o writeBlockWithComments(pkg[1]) ELSE <<>>)
            \o writeEach(options)
            \o writeEach(extends)
            \o (IF imports # <<>> THEN <<NL>> \o writeImports(imports, 1) ELSE <<>>)
            \o writeEach(bodyBlocks)
    IN TrimRightNL(result) \o <<NL>>

-----------------------------------------------------------------------------
(* scanner.go: BuildRefCounts, BuildRefGraph *)

\* the names of the messages and enums the file defines
Defined(bs) ==
    {bs[i].Name : i \in {j \in DOMAIN bs : bs[j].Kind \in {"message", "enum"}
                                           /\ bs[j].Name # ""}}

RECURSIVE rpcTypes(_)
\* request type then response type of every rpc, in declaration order
rpcTypes(rpcs) ==
    IF rpcs = <<>> THEN <<>>
    ELSE <<Head(rpcs).RequestType, Head(rpcs).ResponseType>> \o rpcTypes(Tail(rpcs))

\* the type names one declaration refers to, as the graph builders read them
DeclRefs(b) ==
    IF b.Kind \in {"message", "extend"} THEN ExtractFieldTypes(b)
    ELSE IF b.Kind = "service" THEN rpcTypes(ExtractRPCs(b))
    ELSE <<>>

\* the count a Go map returns: 0 for a missing key
Count(counts, n) == IF n \in DOMAIN counts THEN counts[n] ELSE 0

\* uses[a][ref] = true
AddUse(uses, a, ref) ==
    [x \in DOMAIN uses \cup {a} |->
        (IF x \in DOMAIN uses THEN uses[x] ELSE {}) \cup (IF x = a THEN {ref} ELSE {})]

RECURSIVE countEveryRef(_, _, _, _, _)
\* a loop over the refs of b that does not look at seen
countEveryRef(st, b, refs, seen, defined) ==
    IF refs = <<>> THEN st
    ELSE IF Head(refs) # b.Name /\ Head(refs) \in defined
         THEN countEveryRef([counts |-> [st.counts EXCEPT ![Head(refs)] = @ + 1],
                             uses |-> IF b.Name # "" THEN AddUse(st.uses, b.Name, Head(refs))
                                      ELSE st.uses],
                            b, Tail(refs), seen, defined)
         ELSE countEveryRef(st, b, Tail(refs), seen, defined)

RECURSIVE countRefs(_, _, _, _, _)
\* BuildRefCounts, the loop over the refs of the declaration b: st holds counts
\* and uses, seen the refs of b already counted
countRefs(st, b, refs, seen, defined) ==
    IF refs = <<>> THEN st
    ELSE IF Head(refs) = b.Name THEN countRefs(st, b, Tail(refs), seen, defined)
    ELSE IF Head(refs) \in defined /\ Head(refs) \notin seen
         THEN countRefs([counts |-> [st.counts EXCEPT ![Head(refs)] = @ + 1],
                         uses |-> IF b.Name # "" THEN AddUse(st.uses, b.Name, Head(refs))
                                  ELSE st.uses],
                        b, Tail(refs), seen \cup {Head(refs)}, defined)
         ELSE countRefs(st, b, Tail(refs), seen, defined)

RECURSIVE countBlocks(_, _, _, _)
\* BuildRefCounts, the loop over the blocks from the i-th on
countBlocks(st, bs, i, defined) ==
    IF i > Len(bs) THEN st
    ELSE countBlocks(countRefs(st, bs[i], DeclRefs(bs[i]), {}, defined), bs, i + 1, defined)

\* counts and uses as the first loop of BuildRefCounts leaves them; a count
\* the map has no key for reads 0
CountPass(bs) ==
    countBlocks([counts |-> [n \in Defined(bs) |-> 0], uses |-> <<>>], bs, 1, Defined(bs))

\* uses[a]: the defined types the declarations called a refer to
Uses(bs) == CountPass(bs).uses

\* a turn that leaves the counts as they are
BoostNothing(counts, uses, a, b) == counts

\* a turn that raises only a, and only while b is still below 2
BoostFirstOnly(counts, uses, a, b) ==
    IF b \in DOMAIN uses /\ a \in uses[b] /\ counts[b] < 2
    THEN [counts EXCEPT ![a] = IF @ < 2 THEN 2 ELSE @]
    ELSE counts

\* one turn of the inner loop of the mutual-reference pass, for the pair a, b
BoostStep(counts, uses, a, b) ==
    IF b \in DOMAIN uses /\ a \in uses[b]
    THEN [counts EXCEPT ![a] = IF @ < 2 THEN 2 ELSE @,
                        ![b] = IF @ < 2 THEN 2 ELSE @]
    ELSE counts

RECURSIVE Boost(_, _, _)
\* the mutual-reference pass over the pairs in the order the maps yield them
Boost(counts, uses, pairs) ==
    IF pairs = <<>> THEN counts
    ELSE Boost(BoostStep(counts, uses, Head(pairs)[1], Head(pairs)[2]), uses, Tail(pairs))

RECURSIVE PairOrdersFor(_, _)
\* for the outer keys in the order keys: every order of each inner set
PairOrdersFor(uses, keys) ==
    IF keys = <<>> THEN {<<>>}
    ELSE {[i \in 1..Len(p) |-> <<Head(keys), p[i]>>] \o rest :
            p \in Perms(uses[Head(keys)]), rest \in PairOrdersFor(uses, Tail(keys))}

\* uses cut down to the pairs at which the mutual-reference pass acts: a turn of
\* its loop at any other pair leaves counts as it is
MutualUses(uses) ==
    LET mutual(a) == {b \in uses[a] : b \in DOMAIN uses /\ a \in uses[b]}
    IN [a \in {k \in DOMAIN uses : mutual(k) # {}} |-> mutual(a)]

\* every order in which ranging over uses and over each uses[a] may yield the
\* pairs at which the pass acts
MapOrders(uses) ==
    LET mu == MutualUses(uses)
    IN UNION {PairOrdersFor(mu, k) : k \in Perms(DOMAIN mu)}

\* BuildRefCounts, given the order the runtime iterates the uses map in
BuildRefCounts(bs, pairs) ==
    LET st == CountPass(bs) IN Boost(st.counts, st.uses, pairs)

RECURSIVE graphRefs(_, _, _, _, _)
\* BuildRefGraph, the loop over the refs of the declaration b
graphRefs(graph, b, refs, seen, defined) ==
    IF refs = <<>> THEN graph
    ELSE IF Head(refs) = b.Name THEN graphRefs(graph, b, Tail(refs), seen, defined)
    ELSE IF Head(refs) \in defined /\ Head(refs) \notin seen
         THEN graphRefs([graph EXCEPT ![Head(refs)] = Append(@, b.Name)],
                        b, Tail(refs), seen \cup {Head(refs)}, defined)
         ELSE graphRefs(graph, b, Tail(refs), seen, defined)

RECURSIVE graphBlocks(_, _, _, _)
\* BuildRefGraph, the loop over the blocks from the i-th on
graphBlocks(graph, bs, i, defined) ==
    IF i > Len(bs) THEN graph
    ELSE IF bs[i].Name = "" THEN graphBlocks(graph, bs, i + 1, defined)
    ELSE graphBlocks(graphRefs(graph, bs[i], DeclRefs(bs[i]), {}, defined),
                     bs, i + 1, defined)

\* BuildRefGraph: for each defined type the names of the declarations that
\* refer to it, in file order; a type the map has no key for has the empty list
BuildRefGraph(bs) == graphBlocks([n \in Defined(bs) |-> <<>>], bs, 1, Defined(bs))

Graph(g, n) == IF n \in DOMAIN g THEN g[n] ELSE <<>>

-----------------------------------------------------------------------------
(* sort.Slice by Name: an insertion sort for the short slices of a file *)

RECURSIVE InsertByName(_, _, _)
\* idx put into the sorted list behind every entry whose name is not greater
InsertByName(sorted, idx, bs) ==
    IF sorted = <<>> THEN <<idx>>
    ELSE IF NameLess(bs[idx].Name, bs[sorted[Len(sorted)]].Name)
         THEN Append(InsertByName(SubSeq(sorted, 1, Len(sorted) - 1), idx, bs),
                     sorted[Len(sorted)])
         ELSE Append(sorted, idx)

RECURSIVE SortByName(_, _)
\* the indices of list in ascending order of their blocks' names
SortByName(list, bs) ==
    IF list = <<>> THEN <<>>
    ELSE InsertByName(SortByName(SubSeq(list, 1, Len(list) - 1), bs), list[Len(list)], bs)

-----------------------------------------------------------------------------
(* part_002 / part_001: classifyServiceAndRPC *)

Indices(bs) == [i \in 1..Len(bs) |-> i]

\* the indices of s, in order, whose element satisfies keep (a set of indices)
IndexFilter(bs, keep) == SeqFilter(Indices(bs), keep)

\* blockMap: the last block that carries the name
blockMap(bs) ==
    [n \in {bs[i].Name : i \in DOMAIN bs} \ {""} |->
        CHOOSE i \in DOMAIN bs : bs[i].Name = n /\ \A j \in DOMAIN bs : bs[j].Name = n => j <= i]

RECURSIVE walkKeepLast(_, _, _)
\* a walk that moves a block it meets again to the end of the list
walkKeepLast(types, bm, acc) ==
    IF types = <<>> THEN acc
    ELSE IF Head(types) \in DOMAIN bm
         THEN walkKeepLast(Tail(types), bm,
                           Append(SeqFilter(acc, Range(acc) \ {bm[Head(types)]}),
                                  bm[Head(types)]))
         ELSE walkKeepLast(Tail(types), bm, acc)

RECURSIVE walkRPCTypes(_, _, _)
\* the request/response blocks in the order their names first occur in types
walkRPCTypes(types, bm, acc) ==
    IF types = <<>> THEN acc
    ELSE IF Head(types) \in DOMAIN bm /\ bm[Head(types)] \notin Range(acc)
         THEN walkRPCTypes(Tail(types), bm, Append(acc, bm[Head(types)]))
         ELSE walkRPCTypes(Tail(types), bm, acc)

\* services, rpcMessages and remaining, as indices into bs
classifyServiceAndRPC(bs) ==
    LET svcBlocks == IndexFilter(bs, {i \in DOMAIN bs : bs[i].Kind = "service"})
    IN IF svcBlocks = <<>>
       THEN [services |-> <<>>, rpcMessages |-> <<>>, remaining |-> Indices(bs)]
       ELSE LET types == Flatten([k \in 1..Len(svcBlocks) |-> rpcTypes(bs[svcBlocks[k]].RPCs)])
                rpcMsgs == walkRPCTypes(types, blockMap(bs), <<>>)
                rpcMsgNames == {bs[i].Name : i \in Range(rpcMsgs)}
            IN [services |-> svcBlocks,
                rpcMessages |-> rpcMsgs,
                remaining |-> IndexFilter(bs, {i \in DOMAIN bs :
                                  bs[i].Kind # "service" /\ bs[i].Name \notin rpcMsgNames})]

-----------------------------------------------------------------------------
(* Sort: classification of the remaining types *)

\* the names the classification loop skips as already placed
Placed(bs, c) ==
    {bs[i].Name : i \in Range(c.services)} \cup {bs[i].Name : i \in Range(c.rpcMessages)}

\* part_002: outgoingRefs[name] is non-empty
hasOutgoingRefs(bs, name) ==
    \E i \in DOMAIN bs :
        /\ bs[i].Name = name
        /\ SeqFilter(ExtractFieldTypes(bs[i]), Defined(bs) \ {name}) # <<>>

\* a classification that looks at the incoming count before the outgoing refs
classifyCountFirst(bs, b, counts, graph) ==
    IF Count(counts, b.Name) > 0
    THEN [b EXCEPT !.Section = "helper",
                   !.Consumer = IF Graph(graph, b.Name) # <<>>
                                THEN Graph(graph, b.Name)[1] ELSE @]
    ELSE IF \E i \in DOMAIN bs :
               /\ bs[i].Name = b.Name
               /\ SeqFilter(ExtractFieldTypes(bs[i]), Defined(bs) \ {b.Name}) # <<>>
         THEN [b EXCEPT !.Section = "core"]
         ELSE [b EXCEPT !.Section = "unreferenced"]

\* part_002, lines 149-174: the section and consumer of one remaining block
classifyOutgoing(bs, b, counts, graph) ==
    IF hasOutgoingRefs(bs, b.Name) THEN [b EXCEPT !.Section = "core"]
    ELSE IF Count(counts, b.Name) > 0
         THEN [b EXCEPT !.Section = "helper",
                        !.Consumer = IF Graph(graph, b.Name) # <<>>
                                     THEN Graph(graph, b.Name)[1] ELSE @]
         ELSE [b EXCEPT !.Section = "unreferenced"]

\* part_001, lines 119-141: the section and consumer of one remaining block
classifyIncoming(bs, b, counts, graph) ==
    IF Count(counts, b.Name) >= 2 THEN [b EXCEPT !.Section = "core"]
    ELSE IF Count(counts, b.Name) = 1
         THEN [b EXCEPT !.Section = "helper",
                        !.Consumer = IF Len(Graph(graph, b.Name)) = 1
                                     THEN Graph(graph, b.Name)[1] ELSE @]
         ELSE [b EXCEPT !.Section = "unreferenced"]

\* the body blocks with section and consumer assigned to the remaining ones
Classified(pol, bs, c, counts, graph) ==
    [i \in DOMAIN bs |->
        IF i \in Range(c.remaining) /\ bs[i].Name \notin Placed(bs, c)
        THEN IF pol = "outgoing" THEN classifyOutgoing(bs, bs[i], counts, graph)
             ELSE classifyIncoming(bs, bs[i], counts, graph)
        ELSE bs[i]]

\* coreBlocks, helperBlocks or unrefBlocks: the remaining blocks of the section,
\* in the order of remainingBlocks
SectionList(bs, c, section) ==
    SeqFilter(c.remaining, {i \in DOMAIN bs : bs[i].Name \notin Placed(bs, c)
                                              /\ bs[i].Section = section})

\* part_001: one warning per unreferenced type unless quiet
Warnings(pol, o, bs, unref) ==
    IF pol = "incoming" /\ ~o.Quiet
    THEN [k \in 1..Len(unref) |-> [kind |-> bs[unref[k]].Kind, name |-> bs[unref[k]].Name]]
    ELSE <<>>

-----------------------------------------------------------------------------
(* Sort: comment processing *)

\* comment lines that match dividerBothSidesRe or dividerOneSideRe
Banner == "// ============"
DividerTexts == {"// === X ===", "// --- Y", Banner}

\* the labels sectionHeaderRe knows
HeaderLabels == {"// Services", "// Shared Types", "// Core Types", "// Unreferenced Types",
                 "// Types for Do", "// Composite Types -- using other types",
                 "// Helper Types -- used in other types",
                 "// Standalone Types -- not referenced elsewhere in this file",
                 "// Types unused by RPCs"}

\* isSectionDivider of one line of a comment text
isSectionDivider(line) == Len(line) = 1 /\ line[1].tk = "com" /\ line[1].text \in DividerTexts

RECURSIVE KeepLines(_, _)
KeepLines(lines, drop) ==
    IF lines = <<>> THEN <<>>
    ELSE IF Head(lines) \in drop THEN KeepLines(Tail(lines), drop)
         ELSE <<Head(lines)>> \o KeepLines(Tail(lines), drop)

\* stripDividerComments: the comment text without its divider lines
stripDividerComments(comments) ==
    IF comments = <<>> THEN <<>>
    ELSE LET lines == Split(comments)
         IN Join(KeepLines(lines, {l \in Range(lines) : isSectionDivider(l)}))

\* a three-line section header with a known label starts at position i
HeaderAt(s, i) ==
    /\ i + 5 <= Len(s)
    /\ (i = 1 \/ s[i - 1] = NL)
    /\ s[i] = Com(Banner) /\ s[i + 1] = NL
    /\ s[i + 2].tk = "com" /\ s[i + 2].text \in HeaderLabels /\ s[i + 3] = NL
    /\ s[i + 4] = Com(Banner) /\ s[i + 5] = NL

RECURSIVE stripHeadersFrom(_, _)
stripHeadersFrom(s, i) ==
    IF i > Len(s) THEN <<>>
    ELSE IF HeaderAt(s, i) THEN stripHeadersFrom(s, i + 6)
         ELSE <<s[i]>> \o stripHeadersFrom(s, i + 1)

\* stripSectionHeaders: sectionHeaderRe.ReplaceAllString(comments, "")
stripSectionHeaders(comments) == stripHeadersFrom(comments, 1)

\* containsDivider: some line of the comment text is a divider
containsDivider(comments) == \E l \in Range(Split(comments)) : isSectionDivider(l)

RECURSIVE attachFrom(_, _, _)
\* attachDividerComments from block i on, with the pending divider text
attachFrom(bs, i, pending) ==
    IF i > Len(bs)
    THEN IF pending # <<>> THEN <<Block("comment", "", pending, <<>>)>> ELSE <<>>
    ELSE IF bs[i].Kind = "comment" /\ containsDivider(bs[i].Comments)
         THEN attachFrom(bs, i + 1,
                         (IF pending # <<>> THEN pending \o <<NL>> ELSE <<>>)
                         \o TrimSpace(bs[i].Comments))
         ELSE IF pending # <<>>
              THEN <<[bs[i] EXCEPT !.Comments = pending \o <<NL>> \o @]>>
                   \o attachFrom(bs, i + 1, <<>>)
              ELSE <<bs[i]>> \o attachFrom(bs, i + 1, <<>>)

attachDividerComments(bs) == attachFrom(bs, 1, <<>>)

-----------------------------------------------------------------------------
(* Sort: header and body *)

KindList(bs, kinds) == SeqFilter(bs, {b \in Range(bs) : b.Kind \in kinds})

\* the last block of the kind, as the loop's assignment leaves it; <<>> for nil
LastOfKind(bs, kind) ==
    LET l == KindList(bs, {kind}) IN IF l = <<>> THEN <<>> ELSE <<l[Len(l)]>>

\* part_002 lines 63-101
splitHeader(bs) ==
    LET syn == LastOfKind(bs, "syntax")
        opt == KindList(bs, {"option"})
        imp == KindList(bs, {"import"})
    IN [headerComments |-> IF syn = <<>> THEN <<>> ELSE syn[1].Comments,
        syntax |-> syn,
        pkg |-> LastOfKind(bs, "package"),
        options |-> [k \in 1..Len(opt) |-> opt[SortByName(Indices(opt), opt)[k]]],
        imports |-> [k \in 1..Len(imp) |-> imp[SortByName(Indices(imp), imp)[k]]],
        extends |-> KindList(bs, {"extend"})]

bodyBlocks(bs) == KindList(bs, {"message", "enum", "service"})

-----------------------------------------------------------------------------
(* part_002: topoSortBlocks *)

\* coreSet: the names of the core blocks
coreSet(bs, core) == {bs[i].Name : i \in Range(core)}

\* coreMap[name]: the last core block of the name
coreMap(bs, core, name) ==
    core[CHOOSE k \in DOMAIN core :
            bs[core[k]].Name = name /\ \A l \in DOMAIN core : bs[core[l]].Name = name => l <= k]

\* the core names b refers to, its own name left out: what the loop over refs
\* counts once each by its seen set
coreRefs(bs, core, b) ==
    {n \in Range(DeclRefs(b)) : n # b.Name /\ n \in coreSet(bs, core)}

\* inDegree after the loop over allBlocks
inDegreeOf(bs, core) ==
    [n \in coreSet(bs, core) |->
        Cardinality({<<i, r>> \in (DOMAIN bs) \X coreSet(bs, core) :
                        bs[i].Name = n /\ r \in coreRefs(bs, core, bs[i])})]

\* dependents[ref]: the blocks of allBlocks that refer to ref, in file order
dependentsOf(bs, core, ref) ==
    SeqFilter(Indices(bs), {i \in DOMAIN bs : bs[i].Name \in coreSet(bs, core)
                                              /\ ref \in coreRefs(bs, core, bs[i])})

RECURSIVE InsertString(_, _)
\* n put into the sorted queue
InsertString(sorted, n) ==
    IF sorted = <<>> THEN <<n>>
    ELSE IF NameLess(n, sorted[Len(sorted)])
         THEN Append(InsertString(SubSeq(sorted, 1, Len(sorted) - 1), n), sorted[Len(sorted)])
         ELSE Append(sorted, n)

RECURSIVE SortStrings(_)
\* sort.Strings(queue)
SortStrings(q) ==
    IF q = <<>> THEN <<>>
    ELSE InsertString(SortStrings(SubSeq(q, 1, Len(q) - 1)), q[Len(q)])

RECURSIVE releaseDependents(_, _, _)
\* the loop over dependents[name]: each in-degree goes down by one, and a
\* block that reaches zero joins the queue, which is sorted again
releaseDependents(bs, deps, st) ==
    IF deps = <<>> THEN st
    ELSE LET dep == bs[Head(deps)].Name
             deg == st.inDegree[dep] - 1
         IN releaseDependents(bs, Tail(deps),
                [inDegree |-> [st.inDegree EXCEPT ![dep] = deg],
                 queue |-> IF deg = 0 THEN SortStrings(Append(st.queue, dep))
                           ELSE st.queue])

RECURSIVE kahnLoop(_, _, _, _)
\* the loop 'for len(queue) > 0': the first name of the queue is taken
kahnLoop(bs, core, st, result) ==
    IF st.queue = <<>> THEN result
    ELSE LET name == Head(st.queue)
         IN kahnLoop(bs, core,
                     releaseDependents(bs, dependentsOf(bs, core, name),
                                       [inDegree |-> st.inDegree, queue |-> Tail(st.queue)]),
                     Append(result, coreMap(bs, core, name)))

\* topoSortBlocks that leaves the core blocks in the order of their names
topoByName(core, bs) == SortByName(core, bs)

\* topoSortBlocks(coreBlocks, allBlocks): Kahn's algorithm with a sorted queue;
\* the blocks that never reach in-degree zero follow in the order of their names
topoSortBlocks(core, bs) ==
    IF Len(core) <= 1 THEN core
    ELSE LET deg == inDegreeOf(bs, core)
             queue == SortStrings(
                 [k \in 1..Len(SeqFilter(core, {i \in Range(core) : deg[bs[i].Name] = 0})) |->
                     bs[SeqFilter(core, {i \in Range(core) : deg[bs[i].Name] = 0})[k]].Name])
             result == kahnLoop(bs, core, [inDegree |-> deg, queue |-> queue], <<>>)
             emitted == {bs[i].Name : i \in Range(result)}
             remaining == SeqFilter(core, {i \in Range(core) : bs[i].Name \notin emitted})
         IN IF Len(result) < Len(core) THEN result \o SortByName(remaining, bs) ELSE result

\* part_002 lines 176-183: the core types sorted as opts.SharedOrder says
sortCore(o, bs, core) ==
    IF o.SharedOrder = "dependency" THEN topoSortBlocks(core, bs) ELSE SortByName(core, bs)

-----------------------------------------------------------------------------
(* part_003: SortRPCsInService, parseRPCEntries, rpcGroupKey *)

\* A service declaration is a sequence of lines. A method name is the
\* sequence of its characters' codes, so that names compare as Go strings do.
SvcLine(name) == [ln |-> "svc", name |-> name]        \* service S {
RpcLine(name, form) == [ln |-> "rpc", name |-> name, form |-> form]
    \* form "semi":   rpc N(Req) returns (Res);
    \* form "empty":  rpc N(Req) returns (Res) {}
    \* form "open":   rpc N(Req) returns (Res) {
OptLine(t) == [ln |-> "opt", text |-> t]               \* option o = v;
ComLine(t) == [ln |-> "com", text |-> t]               \* // t
EmptyLine == [ln |-> "blank"]
CloseLine == [ln |-> "close"]                          \* }

\* strings.Count(line, "{") - strings.Count(line, "}")
BraceDelta(line) ==
    IF line.ln = "svc" THEN 1
    ELSE IF line.ln = "close" THEN 0 - 1
    ELSE IF line.ln = "rpc" /\ line.form = "open" THEN 1
    ELSE 0

\* strings.Contains(trimmed, ";")
HasSemicolon(line) == line.ln = "opt" \/ (line.ln = "rpc" /\ line.form = "semi")

\* strings.Contains(trimmed, "}")
HasCloseBrace(line) == line.ln = "close" \/ (line.ln = "rpc" /\ line.form = "empty")

\* a < b as Go compares strings: byte by byte, a proper prefix first
StrLess(a, b) ==
    \E k \in 1..Len(b) :
       /\ \A j \in 1..(k - 1) : j <= Len(a) /\ a[j] = b[j]
       /\ \/ k = Len(a) + 1
          \/ k <= Len(a) /\ a[k] < b[k]

\* unicode.IsUpper for the letters A..Z
IsUpper(c) == c \in 65..90

rpcVerbPrefixes ==
    <<
      <<66, 97, 116, 99, 104, 67, 114, 101, 97, 116, 101>>,  \* BatchCreate
      <<66, 97, 116, 99, 104, 68, 101, 108, 101, 116, 101>>,  \* BatchDelete
      <<66, 97, 116, 99, 104, 71, 101, 116>>,  \* BatchGet
      <<66, 97, 116, 99, 104, 85, 112, 100, 97, 116, 101>>,  \* BatchUpdate
      <<67, 114, 101, 97, 116, 101>>,  \* Create
      <<68, 101, 108, 101, 116, 101>>,  \* Delete
      <<71, 101, 116>>,  \* Get
      <<76, 105, 115, 116>>,  \* List
      <<85, 112, 100, 97, 116, 101>>,  \* Update
      <<87, 97, 116, 99, 104>>,  \* Watch
      <<83, 116, 114, 101, 97, 109>>,  \* Stream
      <<83, 101, 97, 114, 99, 104>>,  \* Search
      <<83, 101, 116>>,  \* Set
      <<65, 100, 100>>,  \* Add
      <<82, 101, 109, 111, 118, 101>>,  \* Remove
      <<83, 116, 97, 114, 116>>,  \* Start
      <<83, 116, 111, 112>>,  \* Stop
      <<82, 117, 110>>,  \* Run
      <<67, 104, 101, 99, 107>>,  \* Check
      <<67, 97, 110, 99, 101, 108>>  \* Cancel
    >>

\* strings.HasPrefix(name, prefix)
HasPrefix(name, prefix) ==
    Len(prefix) <= Len(name) /\ SubSeq(name, 1, Len(prefix)) = prefix

\* the prefixes the loop of rpcGroupKey returns at
Strips(name, k) ==
    /\ HasPrefix(name, rpcVerbPrefixes[k])
    /\ Len(name) > Len(rpcVerbPrefixes[k])
    /\ IsUpper(name[Len(rpcVerbPrefixes[k]) + 1])

\* rpcGroupKey(name): the name behind the first verb prefix that is followed
\* by an upper-case letter, or the whole name
rpcGroupKey(name) ==
    IF \E k \in DOMAIN rpcVerbPrefixes : Strips(name, k)
    THEN LET k == CHOOSE i \in DOMAIN rpcVerbPrefixes :
                     Strips(name, i) /\ \A j \in 1..(i - 1) : ~Strips(name, j)
         IN SubSeq(name, Len(rpcVerbPrefixes[k]) + 1, Len(name))
    ELSE name

\* the state of parseRPCEntries before its first line
ParseStart ==
    [entries |-> <<>>, nonRPCLines |-> <<>>, commentBuf |-> <<>>, rpcBuf |-> <<>>,
     currentName |-> <<>>, inRPC |-> FALSE, braceDepth |-> 0]

\* the entry of the buffers is appended and the buffers are reset
CloseEntry(st, rpcBuf) ==
    [st EXCEPT !.entries = Append(@, [Comments |-> st.commentBuf, RPCText |-> rpcBuf,
                                      Name |-> st.currentName]),
               !.commentBuf = <<>>, !.rpcBuf = <<>>, !.inRPC = FALSE, !.braceDepth = 0]

\* one turn of the loop over the lines
ParseLine(st, line) ==
    IF st.inRPC
    THEN LET depth == st.braceDepth + BraceDelta(line)
             buf == Append(st.rpcBuf, line)
         IN IF depth <= 0 /\ (HasSemicolon(line) \/ HasCloseBrace(line))
            THEN CloseEntry(st, buf)
            ELSE [st EXCEPT !.rpcBuf = buf, !.braceDepth = depth]
    ELSE IF line.ln = "rpc"
    THEN LET st2 == [st EXCEPT !.currentName = line.name, !.inRPC = TRUE,
                               !.braceDepth = BraceDelta(line), !.rpcBuf = Append(@, line)]
         IN IF BraceDelta(line) <= 0 /\ HasSemicolon(line)
            THEN CloseEntry(st2, st2.rpcBuf)
            ELSE st2
    ELSE IF line.ln = "com"
    THEN [st EXCEPT !.commentBuf = Append(@, line)]
    ELSE IF line.ln = "blank"
    THEN IF st.commentBuf # <<>> THEN [st EXCEPT !.commentBuf = Append(@, line)] ELSE st
    ELSE [st EXCEPT !.nonRPCLines = (@ \o st.commentBuf) \o <<line>>, !.commentBuf = <<>>]

RECURSIVE ParseLines(_, _)
ParseLines(st, lines) ==
    IF lines = <<>> THEN st
    ELSE ParseLines(ParseLine(st, Head(lines)), Tail(lines))

\* parseRPCEntries(body): the entries and the non-RPC lines; an rpc the body
\* ends in becomes the last entry, pending comments are not returned
parseRPCEntries(lines) ==
    LET st == ParseLines(ParseStart, lines)
    IN IF st.inRPC /\ st.rpcBuf # <<>>
       THEN [entries |-> Append(st.entries, [Comments |-> st.commentBuf,
                                             RPCText |-> st.rpcBuf,
                                             Name |-> st.currentName]),
             nonRPCLines |-> st.nonRPCLines]
       ELSE [entries |-> st.entries, nonRPCLines |-> st.nonRPCLines]

\* the comparison of the mode: by name, or by group key and then name
EntryLess(mode, a, b) ==
    IF mode = "alpha" THEN StrLess(a.Name, b.Name)
    ELSE IF rpcGroupKey(a.Name) # rpcGroupKey(b.Name)
         THEN StrLess(rpcGroupKey(a.Name), rpcGroupKey(b.Name))
         ELSE StrLess(a.Name, b.Name)

RECURSIVE InsertEntry(_, _, _)
\* e put into the sorted entries behind every entry that is not greater
InsertEntry(mode, sorted, e) ==
    IF sorted = <<>> THEN <<e>>
    ELSE IF EntryLess(mode, e, sorted[Len(sorted)])
         THEN Append(InsertEntry(mode, SubSeq(sorted, 1, Len(sorted) - 1), e),
                     sorted[Len(sorted)])
         ELSE Append(sorted, e)

RECURSIVE SortEntries(_, _)
\* sort.SliceStable(entries, less)
SortEntries(mode, entries) ==
    IF entries = <<>> THEN <<>>
    ELSE InsertEntry(mode, SortEntries(mode, SubSeq(entries, 1, Len(entries) - 1)),
                     entries[Len(entries)])

RECURSIVE EntryLines(_)
\* the comments and the text of each entry in turn
EntryLines(entries) ==
    IF entries = <<>> THEN <<>>
    ELSE (Head(entries).Comments \o Head(entries).RPCText) \o EntryLines(Tail(entries))

\* the empty rest of a line: what stands behind the opening brace on its
\* line, and before the closing brace on its line
RestOfLine == EmptyLine

\* SortRPCsInService(serviceText, mode); the declaration opens with the line of
\* the opening brace and ends with the line of the closing brace
SortRPCsInService(text, mode) ==
    IF Len(text) < 2 \/ text[1].ln # "svc" \/ text[Len(text)].ln # "close" THEN text
    ELSE LET parsed == parseRPCEntries(<<RestOfLine>> \o SubSeq(text, 2, Len(text) - 1)
                                          \o <<RestOfLine>>)
         IN IF Len(parsed.entries) <= 1 \/ mode \notin {"alpha", "grouped"} THEN text
            ELSE <<text[1]>> \o parsed.nonRPCLines
                    \o EntryLines(SortEntries(mode, parsed.entries))
                    \o <<text[Len(text)]>>

\* SortRPCsInService on a service written as one token: each rpc of the
\* token is one entry, a line of its own ending in ';'
SortRPCsInDecl(tok, mode) ==
    LET entries == [k \in DOMAIN tok.rpcs |->
                      [Comments |-> <<>>, RPCText |-> <<tok.rpcs[k]>>,
                       Name |-> tok.rpcs[k].Name]]
    IN IF Len(entries) <= 1 \/ mode \notin {"alpha", "grouped"} THEN tok
       ELSE [tok EXCEPT !.rpcs = [k \in DOMAIN entries |->
                                     SortEntries(mode, entries)[k].RPCText[1]]]

\* part_002 lines 28-61: what Sort does to the scanned blocks before it splits them
prepareBlocks(pol, o, scanned) ==
    LET attached == IF o.PreserveDividers THEN attachDividerComments(scanned) ELSE scanned
    IN [i \in DOMAIN attached |->
          LET b == attached[i]
              c1 == IF pol = "outgoing" THEN stripSectionHeaders(b.Comments) ELSE b.Comments
              c2 == IF o.PreserveDividers THEN c1 ELSE stripDividerComments(c1)
              d == IF o.SortRPCs # "" /\ b.Kind = "service"
                   THEN <<SortRPCsInDecl(b.DeclText[1], o.SortRPCs)>> \o Tail(b.DeclText)
                   ELSE b.DeclText
              b2 == [b EXCEPT !.Comments = c2, !.DeclText = d]
          IN [b2 EXCEPT !.RPCs = ExtractRPCs(b2)]]

-----------------------------------------------------------------------------
(* part_003: verifyContentIntegrity, extractDeclarations; scanner.go: extractBody *)

\* extractBody(declText): what stands between the first '{' and the last '}'.
\* A declaration written as one token holds its body in the token; one
\* written with an opening token has it between that and its last closing token
extractBody(text) ==
    IF text[1].tk = "decl" THEN <<[refs |-> text[1].refs, rpcs |-> text[1].rpcs]>>
    ELSE IF \E i \in DOMAIN text : text[i].tk = "close"
         THEN SubSeq(text, 2, (CHOOSE i \in DOMAIN text :
                                  text[i].tk = "close"
                                  /\ \A j \in DOMAIN text : text[j].tk = "close" => j <= i) - 1)
         ELSE <<>>

\* the key of a block: its kind and its name
DeclKey(b) == <<b.Kind, b.Name>>

\* the blocks extractDeclarations makes an entry for
Keyed(bs) ==
    {i \in DOMAIN bs : bs[i].Kind \in {"message", "enum", "service", "extend",
                                       "syntax", "package", "option", "import"}}

\* extractDeclarations(blocks): key -> body, a later block of a key replaces
\* an earlier one
extractDeclarations(bs) ==
    [k \in {DeclKey(bs[i]) : i \in Keyed(bs)} |->
        LET last == CHOOSE i \in Keyed(bs) :
                       DeclKey(bs[i]) = k /\ \A j \in Keyed(bs) : DeclKey(bs[j]) = k => j <= i
        IN IF bs[last].Kind \in {"message", "enum", "service", "extend"}
           THEN extractBody(bs[last].DeclText)
           ELSE bs[last].DeclText]

\* verifyContentIntegrity(original, sorted): "nil" or the kind of its error
verifyContentIntegrity(original, sorted) ==
    LET o == ScanFile(original)
        t == ScanFile(sorted)
    IN IF ~o.ok \/ ~t.ok THEN "scan"
       ELSE LET origDecls == extractDeclarations(o.blocks)
                sortedDecls == extractDeclarations(t.blocks)
            IN IF Cardinality(DOMAIN origDecls) # Cardinality(DOMAIN sortedDecls)
               THEN "count"
               ELSE IF \E k \in DOMAIN origDecls :
                          k \notin DOMAIN sortedDecls \/ origDecls[k] # sortedDecls[k]
               THEN "mismatch"
               ELSE IF \E k \in DOMAIN sortedDecls : k \notin DOMAIN origDecls
               THEN "mismatch"
               ELSE "nil"

-----------------------------------------------------------------------------
(* Sort: the ordered list *)

\* helperMap before its lists are sorted: consumer -> its helpers, in the
\* order of helperBlocks
helperMapRaw(bs, helper) ==
    [c \in {bs[i].Consumer : i \in Range(helper)} |->
        SeqFilter(helper, {i \in Range(helper) : bs[i].Consumer = c})]

RECURSIVE sortHelperLists(_, _, _)
\* the loop over helperMap that sorts each list, in the order keys
sortHelperLists(hm, keys, bs) ==
    IF keys = <<>> THEN hm
    ELSE sortHelperLists([hm EXCEPT ![Head(keys)] = SortByName(@, bs)], Tail(keys), bs)

RECURSIVE emitWithHelpers(_, _, _, _)
RECURSIVE emitAll(_, _, _, _)
\* emitWithHelpers(b): st is the ordered list and the emitted set before the call
emitWithHelpers(bs, hm, st, i) ==
    IF bs[i].Name \in st.emitted THEN st
    ELSE LET st2 == IF bs[i].Name \in DOMAIN hm
                    THEN emitAll(bs, hm, st, hm[bs[i].Name]) ELSE st
         IN [ordered |-> Append(st2.ordered, i), emitted |-> st2.emitted \cup {bs[i].Name}]

\* emitWithHelpers for each block of list in turn
emitAll(bs, hm, st, list) ==
    IF list = <<>> THEN st
    ELSE emitAll(bs, hm, emitWithHelpers(bs, hm, st, Head(list)), Tail(list))

RECURSIVE appendEach(_, _, _)
\* a loop that appends every block of list, emitted or not
appendEach(bs, st, list) ==
    IF list = <<>> THEN st
    ELSE appendEach(bs, [ordered |-> Append(st.ordered, Head(list)),
                         emitted |-> st.emitted \cup {bs[Head(list)].Name}], Tail(list))

\* a loop that appends the services in the order of their names
appendSorted(bs, st, list) == appendEach(bs, st, SortByName(list, bs))

RECURSIVE appendServices(_, _, _)
\* services are appended without a look at the emitted set
appendServices(bs, st, list) ==
    IF list = <<>> THEN st
    ELSE appendServices(bs, [ordered |-> Append(st.ordered, Head(list)),
                             emitted |-> st.emitted \cup {bs[Head(list)].Name}], Tail(list))

RECURSIVE appendUnemitted(_, _, _)
\* each block of list that is not yet emitted, appended without its helpers
appendUnemitted(bs, st, list) ==
    IF list = <<>> THEN st
    ELSE appendUnemitted(bs,
             IF bs[Head(list)].Name \in st.emitted THEN st
             ELSE [ordered |-> Append(st.ordered, Head(list)),
                   emitted |-> st.emitted \cup {bs[Head(list)].Name}],
             Tail(list))

\* an ordering that puts the composite types before the standalone types
orderCoreFirst(bs, p, hm) ==
    LET s1 == appendServices(bs, [ordered |-> <<>>, emitted |-> {}], p.services)
        s2 == emitAll(bs, hm, s1, p.rpcMessages)
        s3 == appendUnemitted(bs, s2, p.core)
        s4 == appendUnemitted(bs, s3, SortByName(p.unref, bs))
    IN appendUnemitted(bs, s4, p.helper).ordered

\* part_002 lines 201-253: services, request/response types with their helpers,
\* standalone types, composite types, then the helpers left
orderOutgoing(bs, p, hm) ==
    LET s1 == appendServices(bs, [ordered |-> <<>>, emitted |-> {}], p.services)
        s2 == emitAll(bs, hm, s1, p.rpcMessages)
        s3 == appendUnemitted(bs, s2, SortByName(p.unref, bs))
        s4 == appendUnemitted(bs, s3, p.core)
    IN appendUnemitted(bs, s4, p.helper).ordered

\* an ordering that appends the unreferenced types without their helpers
orderIncomingBare(bs, p, hm) ==
    LET s1 == appendServices(bs, [ordered |-> <<>>, emitted |-> {}], p.services)
        s2 == emitAll(bs, hm, s1, p.rpcMessages)
        s3 == emitAll(bs, hm, s2, p.core)
        s4 == appendUnemitted(bs, s3, SortByName(p.unref, bs))
    IN appendUnemitted(bs, s4, p.helper).ordered

\* part_001 lines 168-215: services, request/response types, core types and
\* unreferenced types, each with its helpers, then the helpers left
orderIncoming(bs, p, hm) ==
    LET s1 == appendServices(bs, [ordered |-> <<>>, emitted |-> {}], p.services)
        s2 == emitAll(bs, hm, s1, p.rpcMessages)
        s3 == emitAll(bs, hm, s2, p.core)
        s4 == emitAll(bs, hm, s3, SortByName(p.unref, bs))
    IN appendUnemitted(bs, s4, p.helper).ordered

RECURSIVE emitLoops(_, _, _, _, _)
RECURSIVE emitAllLoops(_, _, _, _, _)
\* emitWithHelpers(b) never returns: before the name of b is marked emitted the
\* call reaches a call for the same name, which does what the first one did;
\* active holds the names of the calls in progress
emitLoops(bs, hm, emitted, i, active) ==
    IF bs[i].Name \in emitted THEN FALSE
    ELSE IF bs[i].Name \in active THEN TRUE
    ELSE IF bs[i].Name \in DOMAIN hm
         THEN emitAllLoops(bs, hm, emitted, hm[bs[i].Name], active \cup {bs[i].Name})
         ELSE FALSE

\* the loop over the helpers of a call in progress, or over the blocks of a
\* section when active is empty, reaches a call that never returns
emitAllLoops(bs, hm, emitted, list, active) ==
    IF list = <<>> THEN FALSE
    ELSE IF emitLoops(bs, hm, emitted, Head(list), active) THEN TRUE
    ELSE emitAllLoops(bs, hm,
                      emitWithHelpers(bs, hm, [ordered |-> <<>>, emitted |-> emitted],
                                      Head(list)).emitted,
                      Tail(list), active)

\* building the ordered list does not return: one of the emitWithHelpers
\* calls of part_002 lines 225-228 or of part_001 lines 192-205 recurses
\* without end
orderLoops(pol, bs, p, hm) ==
    LET s1 == appendServices(bs, [ordered |-> <<>>, emitted |-> {}], p.services)
    IN \/ emitAllLoops(bs, hm, s1.emitted, p.rpcMessages, {})
       \/ /\ pol = "incoming"
          /\ LET s2 == emitAll(bs, hm, s1, p.rpcMessages)
             IN \/ emitAllLoops(bs, hm, s2.emitted, p.core, {})
                \/ emitAllLoops(bs, hm, emitAll(bs, hm, s2, p.core).emitted,
                                SortByName(p.unref, bs), {})

\* the sections the ordering loops assign: service and request/response
withPlacedSections(bs, p) ==
    [i \in DOMAIN bs |->
        IF i \in Range(p.rpcMessages) THEN [bs[i] EXCEPT !.Section = "requestResponse"]
        ELSE IF i \in Range(p.services) THEN [bs[i] EXCEPT !.Section = "service"]
        ELSE bs[i]]

-----------------------------------------------------------------------------
(* The input files of the model *)

\* the names of the messages and enums of a file that declares m of them
MsgNames(m) == {NameOrder[i + 1] : i \in 1..m}

\* the names of the services of a file that declares s of them
SvcNames(s) == {NameOrder[i + 9] : i \in 1..s}

\* the kinds of the body declarations of a file, in file order: messages and
\* services, and at most one enum
Shapes(k) ==
    {sh \in UNION {[1..b -> {"message", "enum", "service"}] : b \in 0..k} :
        Cardinality({i \in DOMAIN sh : sh[i] = "enum"}) <= 1}

\* how many of the first i declarations of the shape sh are of a kind in kinds
CountKinds(sh, i, kinds) == Cardinality({j \in 1..i : sh[j] \in kinds})

\* the ways to name the declarations of the shape sh: the messages and enums
\* carry the first identifiers in any order, the services the first service
\* names in any order
NameLists(sh) ==
    LET m == CountKinds(sh, Len(sh), {"message", "enum"})
        s == CountKinds(sh, Len(sh), {"service"})
    IN {[i \in DOMAIN sh |->
            IF sh[i] = "service" THEN sp[CountKinds(sh, i, {"service"})]
            ELSE mp[CountKinds(sh, i, {"message", "enum"})]] :
          mp \in Perms(MsgNames(m)), sp \in Perms(SvcNames(s))}

RECURSIVE SortedSeq(_)
\* the names of S in ascending order
SortedSeq(S) ==
    IF S = {} THEN <<>>
    ELSE LET x == CHOOSE y \in S : \A z \in S : Rank(y) <= Rank(z)
         IN <<x>> \o SortedSeq(S \ {x})

RECURSIVE SeqsUpTo(_, _)
\* the sequences over S of length at most n
SeqsUpTo(S, n) ==
    IF n = 0 THEN {<<>>}
    ELSE LET shorter == SeqsUpTo(S, n - 1)
         IN shorter \cup {Append(q, x) : q \in {t \in shorter : Len(t) = n - 1}, x \in S}

\* the rpc lists of a service of the body files: none, or rpc Do over the types
RPCLists(types, n) ==
    {<<>>} \cup (IF n >= 1 THEN {<<RPC("Do", q, p)>> : q \in types, p \in types} ELSE {})

\* the declarations of a kind under a name that use at most r entries: a
\* message with fields of other local types, an enum, a service with rpcs
BodyDecls(kind, name, types, r) ==
    IF kind = "message"
    THEN {DeclTok("message", name, SortedSeq(T), <<>>) :
            T \in {U \in SUBSET (types \ {name}) : Cardinality(U) <= r}}
    ELSE IF kind = "enum" THEN {DeclTok("enum", name, <<>>, <<>>)}
    ELSE {DeclTok("service", name, <<>>, rpcs) : rpcs \in RPCLists(types, r)}

\* the number of entries (typed fields, rpcs) a declaration token carries
Slots(d) == Len(d.refs) + Len(d.rpcs)

RECURSIVE DeclLists(_, _, _, _, _)
\* the declaration lists of the shape sh from position i on, named by names,
\* with at most r entries in all
DeclLists(sh, names, types, i, r) ==
    IF i > Len(sh) THEN {<<>>}
    ELSE UNION {{<<d>> \o rest : rest \in DeclLists(sh, names, types, i + 1, r - Slots(d))} :
                  d \in BodyDecls(sh[i], names[i], types, r)}

RECURSIVE Render(_)
\* the text of a file: each declaration on a line of its own
Render(decls) ==
    IF decls = <<>> THEN <<>>
    ELSE <<Head(decls), NL>> \o Render(Tail(decls))

\* text is a file of at most k body declarations with at most r entries
IsBodyFile(text, k, r) ==
    \E sh \in Shapes(k) :
       \E names \in NameLists(sh) :
          \E f \in DeclLists(sh, names,
                             MsgNames(CountKinds(sh, Len(sh), {"message", "enum"})), 1, r) :
             text = Render(f)

\* the type names a field of the files below may use: the local names, a name
\* no declaration defines, and a package-qualified name
OddTypes(m) == MsgNames(m) \cup {"X", "p.A"}

RECURSIVE FieldLists(_, _, _, _)
\* the lists of field type lists for the messages i..m, at most f fields in a
\* message and r in all, repeated and self-referring fields included
FieldLists(m, i, f, r) ==
    IF i > m THEN {<<>>}
    ELSE UNION {{<<refs>> \o rest : rest \in FieldLists(m, i + 1, f, r - Len(refs))} :
                  refs \in SeqsUpTo(OddTypes(m), IF r < f THEN r ELSE f)}

\* text is a file of at most k messages A, B, .. in this order, with at most f
\* typed fields in a message and r in all
IsFieldFile(text, k, f, r) ==
    \E m \in 1..k :
       \E fl \in FieldLists(m, 1, f, r) :
          text = Render([i \in 1..m |-> DeclTok("message", NameOrder[i + 1], fl[i], <<>>)])

\* text is a file of one service with the rpcs Do and Get and, before or after
\* it, at most k messages without fields
IsTwoRPCFile(text, k) ==
    \E m \in 1..k :
       \E mp \in Perms(MsgNames(m)), at \in {1, m + 1} :
          \E q \in MsgNames(m), p \in MsgNames(m), q2 \in MsgNames(m), p2 \in MsgNames(m) :
             text = Render([i \in 1..(m + 1) |->
                              IF i = at
                              THEN DeclTok("service", "S", <<>>,
                                           <<RPC("Do", q, p), RPC("Get", q2, p2)>>)
                              ELSE DeclTok("message", mp[IF i < at THEN i ELSE i - 1],
                                           <<>>, <<>>)])

\* the header statements of the model
ImportTok(name) == DeclTok("import", name, <<>>, <<>>)
PackageTok == DeclTok("package", "pkg", <<>>, <<>>)
OptionTok == DeclTok("option", "A", <<>>, <<>>)
ExtendTok == DeclTok("extend", "X", <<>>, <<>>)

SyntaxToks == {SyntaxTok("proto3", "\""), SyntaxTok("proto2", "\""), SyntaxTok("proto2", "'")}

HeaderToks == SyntaxToks \cup {PackageTok, ImportTok("A"), ImportTok("B"), OptionTok, ExtendTok}

RECURSIVE DistinctSeqs(_, _)
\* the sequences of at most n pairwise different elements of S
DistinctSeqs(S, n) ==
    IF n = 0 THEN {<<>>}
    ELSE {<<>>} \cup UNION {{<<x>> \o q : q \in DistinctSeqs(S \ {x}, n - 1)} : x \in S}

\* a header as protoc accepts it: at most one syntax statement, which comes
\* first, and at most one package statement
ValidHeader(h) ==
    /\ \A i \in DOMAIN h : h[i].kind = "syntax" => i = 1
    /\ Cardinality({i \in DOMAIN h : h[i].kind = "package"}) <= 1

\* the text of a header: a license comment if lic, the statements on a line
\* each, the first followed by the comment note if note
RenderHeader(h, lic, note) ==
    (IF lic THEN <<Com("// license"), NL>> ELSE <<>>)
    \o Flatten([i \in DOMAIN h |->
                   IF i = 1 /\ note THEN <<h[i], Com(Proto2Note), NL>> ELSE <<h[i], NL>>])

\* text is a file of at most k header statements followed by tail
IsHeaderFile(text, k, tail) ==
    \E h \in DistinctSeqs(HeaderToks, k) :
       \E lic \in BOOLEAN, note \in BOOLEAN :
          /\ h # <<>>
          /\ text = RenderHeader(h, lic, note) \o tail

\* the pieces a broken file is put together from
Pieces ==
    {<<>>, <<DeclTok("message", "A", <<>>, <<>>), NL>>, <<Com("// c"), NL>>,
     <<SyntaxTok("proto2", "\""), NL>>, <<SyntaxTok("proto3", "\""), NL>>}

\* text is a file with a token that starts neither a comment nor a declaration
IsBrokenFile(text) ==
    \E before \in Pieces, after \in Pieces : text = before \o <<Junk>> \o after

-----------------------------------------------------------------------------
(* Sort *)

DefaultOptions ==
    [SharedOrder |-> "alpha", SortRPCs |-> "", PreserveDividers |-> FALSE,
     StripCommented |-> FALSE, Quiet |-> FALSE, Annotate |-> FALSE,
     SectionHeaders |-> FALSE]

NoParts == [services |-> <<>>, rpcMessages |-> <<>>, remaining |-> <<>>,
            core |-> <<>>, helper |-> <<>>, unref |-> <<>>]

NoHeader == [headerComments |-> <<>>, syntax |-> <<>>, pkg |-> <<>>,
             options |-> <<>>, imports |-> <<>>, extends |-> <<>>]

\* what a call of Sort leaves when it returns before it has any block: the
\* error e and the text out
Returned(e, out) ==
    [blocks |-> <<>>, err |-> e, hdr |-> NoHeader, body |-> <<>>, refCounts |-> <<>>,
     refGraph |-> <<>>, parts |-> NoParts, ordered |-> <<>>, output |-> out,
     warnings |-> <<>>]

\* no call yet
NoRun == Returned("none", <<>>)

\* part_002 lines 63-174: header and body, BuildRefCounts with the map order
\* pairs, BuildRefGraph, services, request/response types, sections
classifyRun(pol, o, bl, pairs) ==
    LET bd == bodyBlocks(bl)
        counts == BuildRefCounts(bd, pairs)
        graph == BuildRefGraph(bd)
        c == classifyServiceAndRPC(bd)
        bs == Classified(pol, bd, c, counts, graph)
        unref == SectionList(bs, c, "unreferenced")
    IN [blocks |-> bl, err |-> "nil", hdr |-> splitHeader(bl), body |-> bs,
        refCounts |-> counts, refGraph |-> graph,
        parts |-> [services |-> c.services, rpcMessages |-> c.rpcMessages,
                   remaining |-> c.remaining,
                   core |-> SectionList(bs, c, "core"),
                   helper |-> SectionList(bs, c, "helper"),
                   unref |-> unref],
        ordered |-> <<>>, output |-> <<>>,
        warnings |-> Warnings(pol, o, bs, unref)]

\* the consumers whose helper list the sorting loop can change: a turn of the
\* loop at a list of one helper leaves it as it is
SortedKeys(hm) == {c \in DOMAIN hm : Len(hm[c]) >= 2}

RECURSIVE JoinNames(_)
\* strings.Join(refs, ", ")
JoinNames(names) ==
    IF names = <<>> THEN ""
    ELSE IF Len(names) = 1 THEN names[1]
         ELSE (names[1] \o ", ") \o JoinNames(Tail(names))

\* the annotation annotateBlocks writes for a block of the section, "" for none
annotationOf(b, graph) ==
    CASE b.Section = "requestResponse" -> "// (request/response)"
      [] b.Section = "core" ->
            ("// (core: referenced by " \o JoinNames(SortStrings(Graph(graph, b.Name)))) \o ")"
      [] b.Section = "helper" -> ("// (helper: used only by " \o b.Consumer) \o ")"
      [] b.Section = "unreferenced" -> "// (unreferenced)"
      [] OTHER -> ""

\* comment lines of the files of the model that annotationRe matches without
\* being an annotation of these files: a referrer the file no longer has
StaleAnnotations == {"// (core: referenced by Z)"}

\* the comment lines annotationRe matches: the annotations annotateBlocks can
\* write for the names of the model, and the stale ones
AnnotationLines ==
    {"// (request/response)", "// (unreferenced)"}
       \cup {("// (helper: used only by " \o n) \o ")" : n \in Range(NameOrder)}
       \cup {("// (core: referenced by " \o JoinNames(SortedSeq(T))) \o ")" :
               T \in SUBSET MsgNames(MaxBlocks + 1)}
       \cup StaleAnnotations

\* annotationRe.MatchString(strings.TrimSpace(line)) for a line of a comment text
annotationRe(line) == Len(line) = 1 /\ line[1].tk = "com" /\ line[1].text \in AnnotationLines

\* stripAnnotations that strips nothing
keepAnnotations(comments) == comments

\* stripAnnotations: the comment text without the lines annotationRe matches
stripAnnotations(comments) ==
    IF comments = <<>> THEN <<>>
    ELSE LET lines == Split(comments)
         IN Join(KeepLines(lines, {l \in Range(lines) : annotationRe(l)}))

\* annotateBlocks, one turn of its loop: a message or enum of a classified
\* section gets its annotation as the last line of its comments
annotateBlock(b, graph) ==
    IF b.Kind \notin {"message", "enum"} \/ annotationOf(b, graph) = "" THEN b
    ELSE LET comments == TrimRightNL(stripAnnotations(b.Comments))
         IN [b EXCEPT !.Comments =
                IF comments # <<>>
                THEN comments \o <<NL, Com(annotationOf(b, graph)), NL>>
                ELSE <<Com(annotationOf(b, graph)), NL>>]

\* part_002 lines 176-268: the sorted sections, the helper map sorted in the
\* map order keys, the ordered list, Emit
orderRun(pol, o, r, keys) ==
    LET hm == sortHelperLists(helperMapRaw(r.body, r.parts.helper), keys, r.body)
        p == [r.parts EXCEPT !.core = sortCore(o, r.body, @)]
        ord == IF pol = "outgoing" THEN orderOutgoing(r.body, p, hm)
               ELSE orderIncoming(r.body, p, hm)
        placed == withPlacedSections(r.body, r.parts)
        bs == [i \in DOMAIN placed |->
                 IF o.Annotate /\ i \in Range(ord) THEN annotateBlock(placed[i], r.refGraph)
                 ELSE placed[i]]
    IN IF orderLoops(pol, r.body, p, hm) THEN [r EXCEPT !.err = "overflow"]
       ELSE
       [r EXCEPT !.body = bs, !.ordered = ord,
                 !.output = Emit(r.hdr.headerComments, r.hdr.syntax, r.hdr.pkg,
                                 r.hdr.options, r.hdr.imports, r.hdr.extends,
                                 [k \in 1..Len(ord) |-> bs[ord[k]]])]

\* Sort(content, opts): every outcome a call can have, one for each order the
\* runtime may iterate the uses map and the helper map in
Sort(pol, o, text) ==
    IF isProto2(text) THEN {Returned("proto2", <<>>)}
    ELSE LET scanned == ScanFile(text)
         IN IF ~scanned.ok THEN {Returned("parse", <<>>)}
            ELSE IF scanned.blocks = <<>> THEN {Returned("nil", text)}
            ELSE LET bl == prepareBlocks(pol, o, scanned.blocks)
                 IN UNION {{orderRun(pol, o, r, keys) :
                              keys \in Perms(SortedKeys(helperMapRaw(r.body, r.parts.helper)))} :
                             r \in {classifyRun(pol, o, bl, pairs) :
                                      pairs \in MapOrders(Uses(bodyBlocks(bl)))}}

\* the variables of the first call hold the outcome r
Holds(r) ==
    /\ blocks' = r.blocks /\ err' = r.err /\ hdr' = r.hdr /\ body' = r.body
    /\ refCounts' = r.refCounts /\ refGraph' = r.refGraph /\ parts' = r.parts
    /\ ordered' = r.ordered /\ output' = r.output /\ warnings' = r.warnings

\* Sort is about to be called with the options of optionSets
Start(pol, optionSets) ==
    /\ policy = pol
    /\ opts \in optionSets
    /\ pc = "start" /\ second = NoRun
    /\ blocks = <<>> /\ err = "none" /\ hdr = NoHeader /\ body = <<>>
    /\ refCounts = <<>> /\ refGraph = <<>> /\ parts = NoParts /\ ordered = <<>>
    /\ output = <<>> /\ warnings = <<>>
    /\ serviceText = <<>> /\ sortedText = <<>> /\ verdict = "none" /\ cursor = 0

\* the call Sort(content, opts)
SortCall ==
    /\ pc = "start"
    /\ \E r \in Sort(policy, opts, content) : Holds(r)
    /\ pc' = "done"
    /\ UNCHANGED <<policy, content, opts, second, serviceText, sortedText, verdict, cursor>>

\* the caller hands the text Sort returned to Sort once more
Again ==
    /\ pc = "done" /\ err = "nil"
    /\ \E r \in Sort(policy, opts, output) : second' = r
    /\ pc' = "again"
    /\ UNCHANGED <<policy, content, opts, blocks, err, hdr, body, refCounts, refGraph,
                   parts, ordered, output, warnings, serviceText, sortedText, verdict, cursor>>

\* the caller hands the same text to Sort once more
Same ==
    /\ pc = "done"
    /\ \E r \in Sort(policy, opts, content) : second' = r
    /\ pc' = "same"
    /\ UNCHANGED <<policy, content, opts, blocks, err, hdr, body, refCounts, refGraph,
                   parts, ordered, output, warnings, serviceText, sortedText, verdict, cursor>>

Next == SortCall

\* text is a file of a service with the rpc Do followed by at most k messages
\* with at most r entries in all, the rpc counted
IsServedFile(text, k, r) ==
    \E m \in 1..k :
       \E mp \in Perms(MsgNames(m)), q \in MsgNames(m), p \in MsgNames(m) :
          \E f \in DeclLists([i \in 1..m |-> "message"], mp, MsgNames(m), 1, r - 1) :
             text = Render(<<DeclTok("service", "S", <<>>, <<RPC("Do", q, p)>>)>> \o f)

\* text is a file in which a service carries the name of a message: the
\* service, the message of its name and one more message, in any order
IsClashFile(text) ==
    \E n \in MsgNames(2), rpcs \in RPCLists(MsgNames(2), 1) :
       \E f \in DistinctSeqs({DeclTok("service", n, <<>>, rpcs),
                              DeclTok("message", "A", <<>>, <<>>),
                              DeclTok("message", "B", <<>>, <<>>)}, 3) :
          /\ \E i \in DOMAIN f : f[i].kind = "service"
          /\ \E i \in DOMAIN f : f[i].kind = "message" /\ f[i].name = n
          /\ text = Render(f)

\* the one message some header files end with
OneMessage == <<DeclTok("message", "A", <<>>, <<>>), NL>>

\* the header of the file is one protoc accepts
HasValidHeader(text) ==
    ValidHeader(SeqFilter(text, {t \in Range(text) :
                                    t.tk = "decl" /\ t.kind \in {"syntax", "package"}}))

\* the input files of the model
InputFile ==
    \/ IsBodyFile(content, MaxBlocks, MaxRefs)
    \/ IsFieldFile(content, MaxBlocks - 1, MaxFields, MaxRefs)
    \/ IsTwoRPCFile(content, MaxBlocks - 1)
    \/ \E tail \in {<<>>, OneMessage} :
          IsHeaderFile(content, MaxBlocks, tail) /\ HasValidHeader(content)
    \/ IsBrokenFile(content)

Init == InputFile /\ Start("outgoing", {DefaultOptions})

\* Sort of part_002 (outgoing-reference policy), one call
Spec == Init /\ [][Next]_vars

-----------------------------------------------------------------------------
(* Sort called on its own output *)

NextAgain == SortCall \/ Again

InitAgain ==
    /\ InputFile \/ IsServedFile(content, MaxBlocks, MaxRefs)
    /\ Start("outgoing", {DefaultOptions})

\* Sort of part_002, then Sort on the text it returned
SpecAgain == InitAgain /\ [][NextAgain]_vars

\* C1: Sort is idempotent: for every input Sort accepts, Sort of the text Sort
\* returned, under the same options, succeeds and returns that same text.
C1_Idempotent ==
    pc = "again" => second.err = "nil" /\ second.output = output

-----------------------------------------------------------------------------
(* Content integrity *)

\* the files Sort may be handed, those protoc rejects included: a service
\* named as a message, a second syntax or package statement
InitAny ==
    /\ \/ InputFile
       \/ IsClashFile(content)
       \/ \E tail \in {<<>>, OneMessage} : IsHeaderFile(content, MaxBlocks, tail)
    /\ Start("outgoing", {DefaultOptions})

SpecAny == InitAny /\ [][Next]_vars

\* the declarations of a text, in the order of the text
Decls(text) == SeqFilter(text, {t \in Range(text) : t.tk = "decl"})

\* how often x occurs in the sequence q
CountIn(q, x) == Cardinality({i \in DOMAIN q : q[i] = x})

\* the two texts hold the same declarations, each as often
SameDecls(t1, t2) ==
    \A d \in Range(Decls(t1)) \cup Range(Decls(t2)) :
       CountIn(Decls(t1), d) = CountIn(Decls(t2), d)

\* the names the declarations of the kinds declare, one entry per declaration
NamesOf(text, kinds) ==
    LET ds == SeqFilter(Decls(text), {d \in Range(Decls(text)) : d.kind \in kinds})
    IN [i \in DOMAIN ds |-> ds[i].name]

\* no name occurs twice in the sequence
Distinct(q) == \A i \in DOMAIN q, j \in DOMAIN q : q[i] = q[j] => i = j

\* message/enum names are pairwise distinct, and so are service names
DistinctNames(text) ==
    /\ Distinct(NamesOf(text, {"message", "enum"}))
    /\ Distinct(NamesOf(text, {"service"}))

\* no message or enum carries the name of a service, and the file has at most
\* one syntax and at most one package statement
NoClash(text) ==
    /\ Range(NamesOf(text, {"message", "enum"})) \cap Range(NamesOf(text, {"service"})) = {}
    /\ Len(NamesOf(text, {"syntax"})) <= 1
    /\ Len(NamesOf(text, {"package"})) <= 1

\* C2, as stated: for every accepted input with pairwise distinct message/enum
\* names and pairwise distinct service names, the output holds exactly the
\* declarations of the input, each once and with its text unchanged.
C2_ContentIntegrityAsStated ==
    (pc = "done" /\ err = "nil" /\ DistinctNames(content)) => SameDecls(content, output)

\* C2, amended: for every accepted input with pairwise distinct message/enum
\* names and pairwise distinct service names in which, moreover, no message or
\* enum carries the name of a service and there is at most one syntax and one
\* package statement, the output holds exactly the declarations of the input,
\* each once and with its text unchanged.
C2_ContentIntegrity ==
    (pc = "done" /\ err = "nil" /\ DistinctNames(content) /\ NoClash(content))
        => SameDecls(content, output)

\* Sort has moved declarations of a file with a header and several body
\* declarations, and the output holds what the input held
C2_Witness ==
    /\ pc = "done" /\ err = "nil" /\ DistinctNames(content) /\ NoClash(content)
    /\ Len(ordered) >= 3
    /\ Decls(output) # Decls(content)
    /\ SameDecls(content, output)

-----------------------------------------------------------------------------
(* Sort called twice on the same input *)

NextSame == SortCall \/ Same

\* two calls for every file and policy: the body files with one entry fewer
InitSame ==
    /\ IsBodyFile(content, MaxBlocks, MaxRefs - 1)
    /\ \E pol \in {"outgoing", "incoming"} : Start(pol, {DefaultOptions})

\* Sort under either policy, then Sort on the same text once more, each call
\* with map orders of its own
SpecSame == InitSame /\ [][NextSame]_vars

\* C3: two calls of Sort on the same text with the same options return the
\* same error, the same output text and the same warnings, whatever order the
\* uses map and the helper map are iterated in.
C3_Deterministic ==
    pc = "same" =>
        second.err = err /\ second.output = output /\ second.warnings = warnings

\* both calls ran the mutual-reference pass over a uses map that can be
\* iterated in more than one order, and returned the same reordered text
C3_Witness ==
    /\ pc = "same" /\ err = "nil"
    /\ Cardinality(MapOrders(Uses(body))) >= 2
    /\ output # content
    /\ second.output = output /\ second.warnings = warnings

-----------------------------------------------------------------------------
(* The incoming-count policy: Sort of part_001 *)

InitIncoming == InputFile /\ Start("incoming", {DefaultOptions})

SpecIncoming == InitIncoming /\ [][Next]_vars

\* the body blocks classified helper
Helpers == {i \in DOMAIN body : body[i].Section = "helper"}

\* the block a helper's Consumer names
ConsumerOf(i) == CHOOSE j \in DOMAIN body : body[j].Name = body[i].Consumer

\* the place of the body block i in the ordered list
Place(i) == CHOOSE k \in DOMAIN ordered : ordered[k] = i

RECURSIVE HelpersUnder(_)
\* S and the helpers whose consumer, or consumer's consumer, .. is in S
HelpersUnder(S) ==
    LET more == S \cup {i \in Helpers : ConsumerOf(i) \in S}
    IN IF more = S THEN S ELSE HelpersUnder(more)

\* the helper i stands before its consumer with nothing but direct or
\* transitive helpers of that consumer between the two
BeforeConsumer(i) ==
    LET c == ConsumerOf(i)
    IN /\ Place(i) < Place(c)
       /\ \A k \in (Place(i) + 1)..(Place(c) - 1) : ordered[k] \in HelpersUnder({c}) \ {c}

RECURSIVE ChainEnds(_, _)
\* going from the block i to its consumer and on, at most n times, leads to a
\* block that is not a helper
ChainEnds(i, n) ==
    IF i \notin Helpers THEN TRUE
    ELSE IF n = 0 THEN FALSE
    ELSE ChainEnds(ConsumerOf(i), n - 1)

-----------------------------------------------------------------------------
(* The order of services and request/response types: Sort of part_002 *)

\* the names of the messages and enums a text declares
LocalTypes(text) ==
    {d.name : d \in {t \in Range(text) : t.tk = "decl" /\ t.kind \in {"message", "enum"}}}

\* request type, response type of every rpc of every service of the text, the
\* services in file order and the rpcs of each in declaration order
RPCWalk(text) ==
    LET svcs == SeqFilter(Decls(text), {d \in Range(Decls(text)) : d.kind = "service"})
    IN Flatten([i \in DOMAIN svcs |->
                   Flatten([k \in DOMAIN svcs[i].rpcs |->
                               <<svcs[i].rpcs[k].RequestType,
                                 svcs[i].rpcs[k].ResponseType>>])])

\* the entries of q that no earlier entry equals, in the order of q
FirstOccurrences(q) ==
    LET firsts == {i \in DOMAIN q : \A j \in 1..(i - 1) : q[j] # q[i]}
    IN [k \in 1..Cardinality(firsts) |->
          q[CHOOSE i \in firsts : Cardinality({j \in firsts : j < i}) = k - 1]]

\* the request/response types of the input in the order the output has them
RPCTypesEmitted ==
    LET types == NamesOf(output, {"message", "enum"})
    IN SeqFilter(types, Range(RPCWalk(content)))

\* C5: the request/response types stand in the output in the order of their
\* first occurrence in the walk over the services in file order and the rpcs
\* of each in declaration order, request type before response type; each such
\* type stands there once, also when several rpcs or fields of messages use it.
C5_RPCOrder ==
    (pc = "done" /\ err = "nil") =>
        RPCTypesEmitted
            = FirstOccurrences(SeqFilter(RPCWalk(content), LocalTypes(content)))

\* a service with two rpcs that share a type: the types come out in the order
\* of first use, which is neither the input order nor the order of the names
C5_Witness ==
    /\ pc = "done" /\ err = "nil"
    /\ Len(RPCWalk(content)) >= 4
    /\ Len(RPCTypesEmitted) >= 2
    /\ Len(RPCTypesEmitted) < Cardinality(DOMAIN RPCWalk(content))
    /\ RPCTypesEmitted # SeqFilter(NamesOf(content, {"message", "enum"}),
                                   Range(RPCWalk(content)))
    /\ NameLess(RPCTypesEmitted[2], RPCTypesEmitted[1])
    /\ RPCTypesEmitted
          = FirstOccurrences(SeqFilter(RPCWalk(content), LocalTypes(content)))

\* the body declarations of a text
BodyDeclsOf(text) ==
    SeqFilter(Decls(text), {d \in Range(Decls(text)) :
                               d.kind \in {"message", "enum", "service"}})

\* the services of a text, in its order
ServicesOf(text) ==
    SeqFilter(Decls(text), {d \in Range(Decls(text)) : d.kind = "service"})

\* C6: in the output every service stands before every message and enum, and
\* the services stand in the order the input had them in.
C6_ServicesFirst ==
    (pc = "done" /\ err = "nil") =>
        /\ \A i \in DOMAIN output, j \in DOMAIN output :
              (/\ output[i].tk = "decl" /\ output[i].kind = "service"
               /\ output[j].tk = "decl" /\ output[j].kind \in {"message", "enum"}) => i < j
        /\ ServicesOf(output) = ServicesOf(content)

\* two services that the input lists after a message and against the order of
\* their names come out first and in the input's order
C6_Witness ==
    /\ pc = "done" /\ err = "nil"
    /\ Len(ServicesOf(content)) >= 2
    /\ NameLess(ServicesOf(content)[2].name, ServicesOf(content)[1].name)
    /\ BodyDeclsOf(content)[1].kind = "message"
    /\ BodyDeclsOf(output)[1].kind = "service"
    /\ ServicesOf(output) = ServicesOf(content)

-----------------------------------------------------------------------------
(* Classification under the outgoing-reference policy: Sort of part_002 *)

\* the type names the declaration token d refers to: the types of its fields
\* and the request and response types of its rpcs
RefsOfDecl(d) ==
    Range(d.refs) \cup {d.rpcs[k].RequestType : k \in DOMAIN d.rpcs}
                  \cup {d.rpcs[k].ResponseType : k \in DOMAIN d.rpcs}

\* the body declaration called a refers to the type b
RefersTo(text, a, b) ==
    \E d \in Range(text) :
       /\ d.tk = "decl" /\ d.kind \in {"message", "enum", "service"}
       /\ d.name = a /\ b \in RefsOfDecl(d)

\* the names of the declarations of the text, other than n, that refer to n
Referrers(text, n) ==
    {d.name : d \in {e \in Range(text) :
                        /\ e.tk = "decl" /\ e.kind \in {"message", "enum", "service"}
                        /\ e.name # n /\ n \in RefsOfDecl(e)}}

\* the declaration of the text called n refers to a local type other than n
RefersToOther(text, n) ==
    \E d \in Range(text) :
       /\ d.tk = "decl" /\ d.kind \in {"message", "enum", "service"}
       /\ d.name = n /\ Range(d.refs) \cap (LocalTypes(text) \ {n}) # {}

-----------------------------------------------------------------------------
(* BuildRefCounts *)

\* a and b are different local types that refer to each other
MutualPair(text, a, b) == a # b /\ RefersTo(text, a, b) /\ RefersTo(text, b, a)

\* n is in no mutual pair
Unpaired(text, n) == \A m \in LocalTypes(text) : ~MutualPair(text, n, m)

\* C8: for every local message or enum T that is in no mutual pair, the count
\* BuildRefCounts gives T is the number of declarations other than T that
\* refer to T by its plain name, each counted once however many of its fields
\* use T; a reference of T to itself and a package-qualified name that ends in
\* T add nothing.
C8_CountsDistinctReferrers ==
    (pc = "done" /\ err = "nil") =>
        \A n \in LocalTypes(content) :
           Unpaired(content, n) =>
              Count(refCounts, n) = Cardinality(Referrers(content, n))

\* a type that refers to itself and that another message uses in two fields
\* has the count 1
C8_Witness ==
    /\ pc = "done" /\ err = "nil"
    /\ \E d \in Range(Decls(content)), e \in Range(Decls(content)) :
          /\ d.kind = "message" /\ d.name \in Range(d.refs)
          /\ e.kind = "message" /\ e.name # d.name
          /\ Cardinality({k \in DOMAIN e.refs : e.refs[k] = d.name}) >= 2
          /\ Count(refCounts, d.name) = 1

\* n lies on a cycle of three different local types
OnCycle3(text, n) ==
    \E m \in LocalTypes(text), o \in LocalTypes(text) :
       /\ Cardinality({n, m, o}) = 3
       /\ RefersTo(text, n, m) /\ RefersTo(text, m, o) /\ RefersTo(text, o, n)

\* C9: after BuildRefCounts two different types that refer to each other both
\* have a count of at least 2, and a type that lies on a cycle of three types
\* and in no mutual pair has its raw count, the number of its referrers.
C9_MutualBoost ==
    (pc = "done" /\ err = "nil") =>
        /\ \A a \in LocalTypes(content), b \in LocalTypes(content) :
              MutualPair(content, a, b) =>
                  Count(refCounts, a) >= 2 /\ Count(refCounts, b) >= 2
        /\ \A n \in LocalTypes(content) :
              (OnCycle3(content, n) /\ Unpaired(content, n)) =>
                  Count(refCounts, n) = Cardinality(Referrers(content, n))

\* two types that refer to each other and have no other referrer both have
\* the count 2
C9_Witness ==
    /\ pc = "done" /\ err = "nil"
    /\ \E a \in LocalTypes(content), b \in LocalTypes(content) :
          /\ MutualPair(content, a, b)
          /\ Referrers(content, a) = {b} /\ Referrers(content, b) = {a}
          /\ Count(refCounts, a) = 2 /\ Count(refCounts, b) = 2

-----------------------------------------------------------------------------
(* The errors of Sort *)

\* the places of the syntax statements of the text
SyntaxAt(text) == {i \in DOMAIN text : text[i].tk = "decl" /\ text[i].kind = "syntax"}

\* the first syntax statement of the text declares proto2, in either quote
\* style, and stands at the start of its line
DeclaresProto2(text) ==
    \E i \in SyntaxAt(text) :
       /\ \A j \in SyntaxAt(text) : i <= j
       /\ text[i].name = "proto2"
       /\ i = 1 \/ text[i - 1] = NL

\* the text has a token the scanner cannot read
Unscannable(text) == \E t \in Range(text) : t = Junk

\* C10: Sort returns a Proto2Error exactly when the syntax statement of the
\* input declares proto2, a ParseError exactly when it does not and the
\* scanner fails, and nil in every other case; with an error the returned
\* text is empty and there are no warnings.
C10_TwoErrors ==
    pc = "done" =>
        /\ err \in {"nil", "proto2", "parse"}
        /\ err = "proto2" <=> DeclaresProto2(content)
        /\ err = "parse" <=> (~DeclaresProto2(content) /\ Unscannable(content))
        /\ err # "nil" => (output = <<>> /\ warnings = <<>>)

-----------------------------------------------------------------------------
(* Malformed top-level structure: ScanFile *)

\* the tokens the files with braces of their own are put together from
ScanToks ==
    {OpenTok("message", "B"), OpenTok("service", "S"), CloseTok, Junk,
     DeclTok("message", "A", <<>>, <<>>), Com("// c"), SyntaxTok("proto3", "\"")}

\* text is a file of at most k of these tokens, each on a line of its own
IsBraceFile(text, k) ==
    \E n \in 1..k : \E toks \in [1..n -> ScanToks] :
       text = Flatten([i \in 1..n |-> <<toks[i], NL>>])

InitScan == IsBraceFile(content, MaxBlocks) /\ Start("outgoing", {DefaultOptions})

\* Sort of part_002 on files with unmatched braces and unreadable tokens
SpecScan == InitScan /\ [][Next]_vars

\* how many of the first i tokens of the text are of the kind tk
TokCount(text, i, tk) == Cardinality({j \in 1..i : text[j].tk = tk})

\* the braces opened and not closed by the first i tokens
DepthAt(text, i) == TokCount(text, i, "open") - TokCount(text, i, "close")

\* the text has a closing brace that closes nothing or an unreadable token
\* where a declaration is expected, or leaves a brace open at its end
Malformed(text) ==
    \/ \E i \in DOMAIN text :
          text[i].tk \in {"close", "junk"} /\ DepthAt(text, i - 1) = 0
    \/ DepthAt(text, Len(text)) > 0

\* C11: whenever the input has an opening brace that is never closed, a
\* closing brace without an opening one, or an unrecognized token where a
\* declaration keyword is expected, the scan fails at the offending text and
\* returns no blocks, so that Sort returns a parse error.
C11_MalformedIsScanError ==
    (pc = "done" /\ Malformed(content)) =>
        /\ err = "parse" /\ blocks = <<>>
        /\ ~ScanFile(content).ok
        /\ content[ScanFile(content).pos].tk \in {"close", "junk"}

-----------------------------------------------------------------------------
(* The end of the output: Sort lines 24-26, Emit lines 63-68 *)

\* a line comment runs to the end of its line: a newline or the end of the
\* text follows it
LineComments(text) ==
    \A i \in DOMAIN text : (text[i].tk = "com" /\ i < Len(text)) => text[i + 1] = NL

\* text is at most k newlines and comments in any order: a file without a
\* declaration, the empty file among them
IsBlankFile(text, k) ==
    \E n \in 0..k : text \in [1..n -> {NL, Com("// c")}] /\ LineComments(text)

\* text is one message with at most k newlines and comments before it and at
\* most k behind it: a file that ends without a newline or with several
IsLooseFile(text, k) ==
    \E n \in 0..k, m \in 0..k :
       \E lead \in [1..n -> {NL, Com("// c")}], trail \in [1..m -> {NL, Com("// c")}] :
          /\ text = lead \o <<DeclTok("message", "A", <<>>, <<>>)>> \o trail
          /\ LineComments(lead \o <<NL>>) /\ LineComments(trail)

InitEnds ==
    /\ \/ InputFile
       \/ IsBlankFile(content, MaxBlocks)
       \/ IsLooseFile(content, MaxBlocks)
    /\ Start("outgoing", {DefaultOptions})

\* Sort of part_002 on the input files and on files with loose ends
SpecEnds == InitEnds /\ [][Next]_vars

\* the text ends with a newline, and the character before it is no newline
EndsWithOneNewline(text) ==
    /\ text # <<>> /\ text[Len(text)] = NL
    /\ Len(text) >= 2 => text[Len(text) - 1] # NL

\* the text holds a comment or a declaration
HasBlock(text) == \E i \in DOMAIN text : text[i].tk # "nl"

\* C12, as stated: whenever Sort succeeds the returned text ends with exactly
\* one newline, for inputs without a declaration too.
C12_OneFinalNewlineAsStated ==
    (pc = "done" /\ err = "nil") => EndsWithOneNewline(output)

\* C12, amended: whenever Sort succeeds on an input that holds a declaration
\* or a comment the returned text ends with exactly one newline; an input
\* that holds neither, empty or of white space only, is returned as it is.
C12_OneFinalNewline ==
    (pc = "done" /\ err = "nil") =>
        IF HasBlock(content) THEN EndsWithOneNewline(output) ELSE output = content

\* an input whose message is followed by several newlines, or by none, comes
\* out with one
C12_Witness ==
    /\ pc = "done" /\ err = "nil"
    /\ \E i \in DOMAIN content : content[i].tk = "decl"
    /\ ~EndsWithOneNewline(content)
    /\ EndsWithOneNewline(output)

-----------------------------------------------------------------------------
(* The space between declarations: Emit *)

\* the lines a gap between two declarations is made of: a blank line, a
\* comment, a section divider
GapLines == {<<NL>>, <<Com("// c"), NL>>, <<Com("// === X ===")>> \o <<NL>>}

\* text is two messages with at most k lines between them
IsGapFile(text, k) ==
    \E n \in 0..k : \E gap \in [1..n -> GapLines] :
       \E names \in {<<"A", "B">>, <<"B", "A">>} :
          text = <<DeclTok("message", names[1], <<>>, <<>>), NL>> \o Flatten(gap)
                 \o <<DeclTok("message", names[2], <<>>, <<>>), NL>>

InitGaps ==
    /\ InputFile \/ IsGapFile(content, MaxBlocks + 2)
    /\ Start("outgoing", {DefaultOptions})

\* Sort of part_002 on the input files and on files with comments and blank
\* lines between two declarations
SpecGaps == InitGaps /\ [][Next]_vars

\* the places of the declarations of the text
DeclAt(text) == {i \in DOMAIN text : text[i].tk = "decl"}

\* i and j are the places of two declarations with no declaration between
Adjacent(text, i, j) ==
    /\ i \in DeclAt(text) /\ j \in DeclAt(text) /\ i < j
    /\ \A k \in DeclAt(text) : ~(i < k /\ k < j)

\* the place of the newline that ends the line of the declaration at i,
\* behind its trailing comment if it has one
LineEnd(text, i) == IF text[i + 1].tk = "com" THEN i + 2 ELSE i + 1

\* C13: between two adjacent declarations of the output, the line of the
\* first is followed by one empty line and then by a comment or the next
\* declaration, and nowhere between the two do two empty lines follow each
\* other.
C13_OneBlankLine ==
    (pc = "done" /\ err = "nil") =>
        \A i \in DeclAt(output), j \in DeclAt(output) :
           Adjacent(output, i, j) =>
              LET e == LineEnd(output, i)
              IN /\ e + 2 <= j
                 /\ output[e] = NL /\ output[e + 1] = NL /\ output[e + 2] # NL
                 /\ \A k \in i..(j - 2) :
                       ~(output[k] = NL /\ output[k + 1] = NL /\ output[k + 2] = NL)

-----------------------------------------------------------------------------
(* Warnings for unreferenced types *)

QuietOptions == [DefaultOptions EXCEPT !.Quiet = TRUE]

InitWarn ==
    /\ IsBodyFile(content, MaxBlocks - 1, MaxRefs)
    /\ \E pol \in {"outgoing", "incoming"} : Start(pol, {DefaultOptions, QuietOptions})

\* Sort under either policy, with quiet off and on
SpecWarn == InitWarn /\ [][Next]_vars

\* the body blocks Sort has classified unreferenced
Unreferenced == {i \in DOMAIN body : body[i].Section = "unreferenced"}

\* C14: when Sort succeeds with quiet off, the warnings are one warning for
\* each message or enum classified unreferenced, with its kind and name, and
\* no other; with quiet on there are no warnings. The error is nil either way.
C14_UnreferencedWarned ==
    (pc = "done" /\ err = "nil") =>
        IF opts.Quiet THEN warnings = <<>>
        ELSE /\ Len(warnings) = Cardinality(Unreferenced)
             /\ \A i \in Unreferenced :
                   \E k \in DOMAIN warnings :
                      warnings[k] = [kind |-> body[i].Kind, name |-> body[i].Name]

-----------------------------------------------------------------------------
(* The section layout of the outgoing-reference policy: Sort of part_002 *)

InitLayout ==
    /\ \/ IsBodyFile(content, MaxBlocks, MaxRefs - 1)
       \/ IsServedFile(content, MaxBlocks, MaxRefs - 1)
    /\ Start("outgoing", {DefaultOptions})

\* Sort of part_002 on body files, with up to MaxBlocks messages behind a
\* service among them
SpecLayout == InitLayout /\ [][Next]_vars

\* the place of a section in the layout
SectionRank(section) ==
    CASE section = "service" -> 1
      [] section = "requestResponse" -> 2
      [] section = "unreferenced" -> 3
      [] section = "core" -> 4
      [] section = "helper" -> 5
      [] OTHER -> 0

\* the block at the place p of the ordered list
OrderedBlock(p) == body[ordered[p]]

\* the block at p is a helper, and its consumer, a request/response type,
\* follows it with nothing but helpers of that consumer between the two
BeforeItsRequest(p) ==
    /\ OrderedBlock(p).Section = "helper"
    /\ \E c \in DOMAIN ordered :
          /\ p < c
          /\ OrderedBlock(c).Section = "requestResponse"
          /\ OrderedBlock(c).Name = OrderedBlock(p).Consumer
          /\ \A k \in p..(c - 1) :
                /\ OrderedBlock(k).Section = "helper"
                /\ OrderedBlock(k).Consumer = OrderedBlock(c).Name

-----------------------------------------------------------------------------
(* The order of the helpers of one consumer *)

\* C16: two helpers with the same consumer stand in the output in ascending
\* order of their names, whatever kind of declaration the consumer is and
\* whatever order the input had them in.
C16_HelpersByName ==
    (pc = "done" /\ err = "nil" /\ blocks # <<>>) =>
        /\ BodyDeclsOf(output) = [k \in DOMAIN ordered |-> DeclOf(OrderedBlock(k))]
        /\ \A p \in DOMAIN ordered, q \in DOMAIN ordered :
              (/\ p < q
               /\ OrderedBlock(p).Section = "helper" /\ OrderedBlock(q).Section = "helper"
               /\ OrderedBlock(p).Consumer = OrderedBlock(q).Consumer)
                 => NameLess(OrderedBlock(p).Name, OrderedBlock(q).Name)

-----------------------------------------------------------------------------
(* The order of the header: Sort lines 63-101, Emit *)

\* the header statements of the files below: two options and two imports
MixedHeaderToks ==
    {SyntaxTok("proto3", "\""), PackageTok, OptionTok, DeclTok("option", "B", <<>>, <<>>),
     ExtendTok, ImportTok("A"), ImportTok("B")}

\* text is at most k different header statements in any order, with or
\* without a license comment before them and a message behind them
IsMixedHeaderFile(text, k) ==
    \E h \in DistinctSeqs(MixedHeaderToks, k) :
       \E lic \in BOOLEAN, tail \in {<<>>, OneMessage} :
          h # <<>> /\ text = RenderHeader(h, lic, FALSE) \o tail

InitHeader == IsMixedHeaderFile(content, MaxBlocks + 1) /\ Start("outgoing", {DefaultOptions})

\* Sort of part_002 on files whose header statements stand in any order
SpecHeader == InitHeader /\ [][Next]_vars

\* the place of a kind of statement in the header order; the body comes last
HeaderRank(kind) ==
    CASE kind = "syntax" -> 1
      [] kind = "package" -> 2
      [] kind = "option" -> 3
      [] kind = "extend" -> 4
      [] kind = "import" -> 5
      [] OTHER -> 6

\* the first token of the text that is no newline
FirstToken(text) ==
    text[CHOOSE i \in DOMAIN text :
            text[i] # NL /\ \A j \in 1..(i - 1) : text[j] = NL]

\* C17: whatever order the header statements of the input stand in, the
\* output begins with the leading comments of the file, and its statements
\* stand in the order syntax, package, options by name, extends, imports by
\* path, body.
C17_HeaderOrder ==
    (pc = "done" /\ err = "nil" /\ blocks # <<>>) =>
        /\ content[1].tk = "com" => FirstToken(output) = content[1]
        /\ \A i \in DeclAt(output), j \in DeclAt(output) :
              i < j =>
                 /\ HeaderRank(output[i].kind) <= HeaderRank(output[j].kind)
                 /\ (output[i].kind = output[j].kind /\ output[i].kind \in {"option", "import"})
                       => NameLess(output[i].name, output[j].name)

-----------------------------------------------------------------------------
(* Dependency mode: topoSortBlocks *)

DependencyOptions == [DefaultOptions EXCEPT !.SharedOrder = "dependency"]

\* text is a file of at most k messages, named in ascending or in descending
\* order, with at most r typed fields in all
IsMessageFile(text, k, r) ==
    \E m \in 1..k :
       \E names \in {SortedSeq(MsgNames(m)),
                     [i \in 1..m |-> SortedSeq(MsgNames(m))[m + 1 - i]]} :
          \E f \in DeclLists([i \in 1..m |-> "message"], names, MsgNames(m), 1, r) :
             text = Render(f)

InitDependency ==
    /\ IsBodyFile(content, MaxBlocks - 1, MaxRefs) \/ IsMessageFile(content, MaxBlocks + 1, MaxRefs)
    /\ Start("outgoing", {DependencyOptions})

\* Sort of part_002 with SharedOrder "dependency"
SpecDependency == InitDependency /\ [][Next]_vars

\* the places of the ordered list that hold a core type
CorePlaces == {p \in DOMAIN ordered : body[ordered[p]].Section = "core"}

\* the core type at place p refers to the core type at place q
CoreEdge(p, q) ==
    /\ p # q
    /\ body[ordered[q]].Name \in Range(DeclRefs(body[ordered[p]]))

RECURSIVE CorePath(_, _, _)
\* a chain of at most n references leads from the core type at p to the one at q
CorePath(p, q, n) ==
    /\ n > 0
    /\ \/ CoreEdge(p, q)
       \/ \E m \in CorePlaces : CoreEdge(p, m) /\ CorePath(m, q, n - 1)

\* the core type at place p is a member of a reference cycle of core types
OnCoreCycle(p) == CorePath(p, p, MaxBlocks + 1)

\* the core type at place p never reaches in-degree zero: it is a member of a
\* cycle or depends, directly or through other core types, on a member of one
NeverReady(p) ==
    \/ OnCoreCycle(p)
    \/ \E m \in CorePlaces : CorePath(p, m, MaxBlocks + 1) /\ OnCoreCycle(m)

-----------------------------------------------------------------------------
(* The order of the rpcs of a service: SortRPCsInService *)

MethodNames ==
    {
     <<66, 97, 116, 99, 104, 71, 101, 116, 85, 115, 101, 114>>,  \* BatchGetUser
     <<67, 114, 101, 97, 116, 101, 85, 115, 101, 114>>,  \* CreateUser
     <<71, 101, 116>>,  \* Get
     <<71, 101, 116, 84, 114, 105, 112>>,  \* GetTrip
     <<71, 101, 116, 85, 115, 101, 114>>,  \* GetUser
     <<71, 101, 116, 97, 119, 97, 121>>  \* Getaway
    }

FewNames ==
    {
     <<67, 114, 101, 97, 116, 101, 85, 115, 101, 114>>,  \* CreateUser
     <<71, 101, 116, 84, 114, 105, 112>>,  \* GetTrip
     <<71, 101, 116, 85, 115, 101, 114>>  \* GetUser
    }

Forms == {"semi", "empty", "open"}

\* the lines of an rpc: one line, or three with an option body
RpcLines(name, form) ==
    IF form = "open" THEN <<RpcLine(name, "open"), OptLine("http"), CloseLine>>
    ELSE <<RpcLine(name, form)>>

\* the lines that may stand between the rpcs
ExtraLines == {ComLine("note"), OptLine("deprecated"), EmptyLine}

RECURSIVE ExtrasAt(_, _)
\* the extra lines of ex that stand in front of the rpc p + 1 (or, for the
\* last p, behind the last rpc)
ExtrasAt(ex, p) ==
    IF ex = <<>> THEN <<>>
    ELSE (IF Head(ex)[2] = p THEN <<Head(ex)[1]>> ELSE <<>>) \o ExtrasAt(Tail(ex), p)

RECURSIVE BodyLines(_, _, _, _)
\* the body of a service with the rpcs ns in the forms fs and the extra lines
\* ex, from the rpc p + 1 on
BodyLines(ns, fs, ex, p) ==
    ExtrasAt(ex, p)
       \o (IF p >= Len(ns) THEN <<>>
           ELSE RpcLines(ns[p + 1], fs[p + 1]) \o BodyLines(ns, fs, ex, p + 1))

\* text is a service with at most k rpcs of different names and at most x
\* extra lines
IsServiceText(text, names, k, x) ==
    \E ns \in DistinctSeqs(names, k) :
       /\ ns # <<>>
       /\ \E fs \in [DOMAIN ns -> Forms] :
             \E ex \in SeqsUpTo(ExtraLines \X (0..Len(ns)), x) :
                text = (<<SvcLine("S")>> \o BodyLines(ns, fs, ex, 0)) \o <<CloseLine>>

AlphaOptions == [DefaultOptions EXCEPT !.SortRPCs = "alpha"]
GroupedOptions == [DefaultOptions EXCEPT !.SortRPCs = "grouped"]

InitRPC ==
    /\ IsServiceText(serviceText, MethodNames, MaxBlocks, 0)
          \/ IsServiceText(serviceText, FewNames, MaxBlocks, MaxFields)
    /\ opts \in {AlphaOptions, GroupedOptions}
    /\ policy = "outgoing" /\ content = <<>>
    /\ pc = "start" /\ second = NoRun
    /\ blocks = <<>> /\ err = "none" /\ hdr = NoHeader /\ body = <<>>
    /\ refCounts = <<>> /\ refGraph = <<>> /\ parts = NoParts /\ ordered = <<>>
    /\ output = <<>> /\ warnings = <<>>
    /\ sortedText = <<>> /\ verdict = "none" /\ cursor = 0

\* Sort lines 48-54: the call SortRPCsInService(b.DeclText, opts.SortRPCs)
SortRPCsCall ==
    /\ pc = "start" /\ serviceText # <<>>
    /\ sortedText' = SortRPCsInService(serviceText, opts.SortRPCs)
    /\ pc' = "done"
    /\ UNCHANGED <<policy, content, opts, blocks, err, hdr, body, refCounts, refGraph,
                   parts, ordered, output, warnings, second, serviceText, verdict, cursor>>

NextRPC == SortRPCsCall

SpecRPC == InitRPC /\ [][NextRPC]_vars

RECURSIVE LineDepth(_, _)
\* the number of braces open in front of the line i
LineDepth(text, i) ==
    IF i <= 1 THEN 0 ELSE LineDepth(text, i - 1) + BraceDelta(text[i - 1])

\* how often the line l stands in text
LineCount(text, l) == Cardinality({i \in DOMAIN text : text[i] = l})

\* the lines of the service itself that belong to no rpc: its options
ServiceLevel(text) ==
    {i \in DOMAIN text : text[i].ln = "opt" /\ LineDepth(text, i) = 1}

\* the lines at the places I of text, in their order
LinesAt(text, I) == SeqFilter(text, {text[i] : i \in I})

\* the place where the rpc that begins in line i ends
EntryEnd(text, i) ==
    CHOOSE e \in i..Len(text) :
       /\ LineDepth(text, e + 1) = 1
       /\ \A d \in i..(e - 1) : LineDepth(text, d + 1) > 1

\* the comment lines directly in front of line i reach back c lines
CommentsBefore(text, i, c) ==
    \A d \in 1..c : i - d >= 1 /\ text[i - d].ln = "com"

\* the rpc that begins in line i of serviceText stands from line j of sortedText
\* on, with all its lines and the comment lines in front of it
SameEntry(i, j) ==
    /\ \A d \in 0..(EntryEnd(serviceText, i) - i) :
          j + d <= Len(sortedText) /\ sortedText[j + d] = serviceText[i + d]
    /\ \A c \in 1..Len(serviceText) :
          CommentsBefore(serviceText, i, c) => (j - c >= 1 /\ sortedText[j - c] = serviceText[i - c])

\* C19: SortRPCsInService changes only the order of the rpcs: the service line
\* and the closing brace stay, the service's own options come first in their
\* order, every rpc is there once with its comment lines and all its lines,
\* and no line that is not blank is lost or doubled.
C19_OnlyOrderChanges ==
    (pc = "done" /\ serviceText # <<>>) =>
        /\ sortedText[1] = serviceText[1]
        /\ sortedText[Len(sortedText)] = serviceText[Len(serviceText)]
        /\ \A i \in ServiceLevel(sortedText), j \in DOMAIN sortedText :
              sortedText[j].ln = "rpc" => i < j
        /\ LinesAt(sortedText, ServiceLevel(sortedText))
              = LinesAt(serviceText, ServiceLevel(serviceText))
        /\ \A i \in DOMAIN serviceText :
              serviceText[i].ln = "rpc" =>
                 /\ LineCount(sortedText, serviceText[i]) = 1
                 /\ \E j \in DOMAIN sortedText : SameEntry(i, j)
        /\ \A l \in Range(serviceText) \cup Range(sortedText) :
              l # EmptyLine => LineCount(sortedText, l) = LineCount(serviceText, l)

\* the places of the rpc lines of the result
RpcPlaces == {i \in DOMAIN sortedText : sortedText[i].ln = "rpc"}

\* C20: after SortRPCsInService the rpcs stand in ascending order of their
\* names in alpha mode and of (resource key, name) in grouped mode, whichever
\* way an rpc is written: ending in ';', with an empty '{}' body, or with an
\* option body of several lines.
C20_RPCsInOrder ==
    (pc = "done" /\ serviceText # <<>>) =>
        \A i \in RpcPlaces, j \in RpcPlaces :
           i < j =>
              IF opts.SortRPCs = "alpha"
              THEN ~StrLess(sortedText[j].name, sortedText[i].name)
              ELSE /\ ~StrLess(rpcGroupKey(sortedText[j].name), rpcGroupKey(sortedText[i].name))
                   /\ rpcGroupKey(sortedText[j].name) = rpcGroupKey(sortedText[i].name)
                         => ~StrLess(sortedText[j].name, sortedText[i].name)

-----------------------------------------------------------------------------
(* The integrity gate: verifyContentIntegrity *)

\* the declarations of the texts below: two bodies for message A, an enum of
\* the same name, another message and an import
GateDecls ==
    {DeclTok("message", "A", <<>>, <<>>), DeclTok("message", "A", <<"B">>, <<>>),
     DeclTok("enum", "A", <<>>, <<>>), DeclTok("message", "B", <<>>, <<>>), ImportTok("A")}

\* text is at most k declarations of GateDecls, each on a line of its own,
\* in any order and with repetitions
IsGateText(text, k) == \E q \in SeqsUpTo(GateDecls, k) : text = Render(q)

\* two texts are given: content is the original, output the text to compare
InitGate ==
    /\ IsGateText(content, MaxBlocks) /\ IsGateText(output, MaxBlocks)
    /\ policy = "outgoing" /\ opts = DefaultOptions
    /\ pc = "done" /\ second = NoRun
    /\ blocks = <<>> /\ err = "nil" /\ hdr = NoHeader /\ body = <<>>
    /\ refCounts = <<>> /\ refGraph = <<>> /\ parts = NoParts /\ ordered = <<>>
    /\ warnings = <<>>
    /\ serviceText = <<>> /\ sortedText = <<>> /\ verdict = "none" /\ cursor = 0

\* Verify: the call verifyContentIntegrity(original, sorted)
VerifyCall ==
    /\ pc = "done" /\ err = "nil"
    /\ verdict' = verifyContentIntegrity(content, output)
    /\ pc' = "verified"
    /\ UNCHANGED <<policy, content, opts, blocks, err, hdr, body, refCounts, refGraph,
                   parts, ordered, output, warnings, second, serviceText, sortedText, cursor>>

NextGate == VerifyCall

SpecGate == InitGate /\ [][NextGate]_vars

\* C21: verifyContentIntegrity returns nil exactly when the two texts hold
\* the same declarations with the same bodies, each as often in the one as
\* in the other, in any order; a missing, an extra, a doubled or an altered
\* declaration is an error.
C21_GateExact ==
    pc = "verified" => (verdict = "nil" <=> SameDecls(content, output))

-----------------------------------------------------------------------------
(* Sorted rpcs and the integrity gate *)

\* text is a service with at most k rpcs of different names over the
\* messages A and B, in front of or behind these two messages
IsRPCFile(text, k) ==
    \E ns \in DistinctSeqs(FewNames, k) :
       /\ ns # <<>>
       /\ \E ts \in [DOMAIN ns -> {<<"A", "A">>, <<"A", "B">>, <<"B", "B">>}] :
             \E first \in BOOLEAN :
                LET svc == <<DeclTok("service", "S", <<>>,
                                     [k2 \in DOMAIN ns |-> RPC(ns[k2], ts[k2][1], ts[k2][2])])>>
                    msgs == <<DeclTok("message", "A", <<>>, <<>>),
                              DeclTok("message", "B", <<>>, <<>>)>>
                IN text = Render(IF first THEN svc \o msgs ELSE msgs \o svc)

InitSortedRPCs == IsRPCFile(content, MaxBlocks) /\ Start("outgoing", {AlphaOptions, GroupedOptions})

NextVerified == SortCall \/ VerifyCall

\* Sort with sort-rpcs on, then the integrity gate on its input and output
SpecSortedRPCs == InitSortedRPCs /\ [][NextVerified]_vars

\* C22: for an input with a service, the output of Sort with sort-rpcs alpha
\* or grouped passes verifyContentIntegrity against the input.
C22_SortedRPCsPassGate ==
    (pc = "verified" /\ opts.SortRPCs \in {"alpha", "grouped"}) => verdict = "nil"

-----------------------------------------------------------------------------
(* Preserved dividers: attachDividerComments *)

DividerOptions == [DefaultOptions EXCEPT !.PreserveDividers = TRUE]

\* the lines in front of, between and behind the declarations of the files below
DividerLines ==
    {<<NL>>, <<Com("// c"), NL>>, <<Com("// === X ==="), NL>>, <<Com("// --- Y"), NL>>}

\* text is two messages, in either order of their names, with at most k
\* lines in all in front of the first, between the two and behind the second
IsDividerFile(text, k) ==
    \E n1 \in 0..k : \E n2 \in 0..(k - n1) : \E n3 \in 0..(k - n1 - n2) :
       \E g1 \in [1..n1 -> DividerLines], g2 \in [1..n2 -> DividerLines],
          g3 \in [1..n3 -> DividerLines] :
          \E names \in {<<"A", "B">>, <<"B", "A">>} :
             text = Flatten(g1) \o <<DeclTok("message", names[1], <<>>, <<>>), NL>>
                    \o Flatten(g2) \o <<DeclTok("message", names[2], <<>>, <<>>), NL>>
                    \o Flatten(g3)

InitDividers == IsDividerFile(content, MaxBlocks) /\ Start("outgoing", {DividerOptions})

\* Sort of part_002 with preserve-dividers on
SpecDividers == InitDividers /\ [][Next]_vars

\* the place of the last declaration of text in front of place i, or 0
PrevDecl(text, i) ==
    IF \E j \in DeclAt(text) : j < i
    THEN CHOOSE j \in DeclAt(text) : j < i /\ \A l \in DeclAt(text) : l < i => l <= j
    ELSE 0

\* the divider comments of text between the places a and b, in their order
DividersBetween(text, a, b) ==
    SeqFilter(SubSeq(text, a + 1, b - 1), {Com(t) : t \in DividerTexts})

\* C23: with preserve-dividers on no divider comment is lost: the dividers in
\* front of a declaration stand in front of it in the output, in their
\* order, and the dividers behind the last declaration of the input stand
\* behind the last declaration of the output.
C23_DividersKept ==
    (pc = "done" /\ err = "nil" /\ opts.PreserveDividers) =>
        /\ \A i \in DeclAt(content) :
              \E j \in DeclAt(output) :
                 /\ output[j] = content[i]
                 /\ DividersBetween(output, PrevDecl(output, j), j)
                       = DividersBetween(content, PrevDecl(content, i), i)
        /\ DividersBetween(output, PrevDecl(output, Len(output) + 1), Len(output) + 1)
              = DividersBetween(content, PrevDecl(content, Len(content) + 1), Len(content) + 1)

-----------------------------------------------------------------------------
(* Annotations: annotateBlocks, stripAnnotations *)

AnnotateOptions == [DefaultOptions EXCEPT !.Annotate = TRUE]

\* the comment lines in front of a declaration of the files below: a comment
\* of the author, and lines annotationRe matches
LeadLines ==
    {<<Com("// c"), NL>>, <<Com("// (unreferenced)"), NL>>,
     <<Com("// (core: referenced by Z)"), NL>>}

\* text is a file of at most k body declarations with at most r entries and
\* at most n comment lines in front of one of its declarations
IsAnnotatedFile(text, k, r, n) ==
    \E sh \in Shapes(k) \ {<<>>} :
       \E names \in NameLists(sh) :
          \E f \in DeclLists(sh, names,
                             MsgNames(CountKinds(sh, Len(sh), {"message", "enum"})), 1, r) :
             \E i \in 1..Len(f), m \in 0..n :
                \E lead \in [1..m -> LeadLines] :
                   text = Render(SubSeq(f, 1, i - 1)) \o Flatten(lead)
                          \o Render(SubSeq(f, i, Len(f)))

InitAnnotate ==
    /\ IsAnnotatedFile(content, MaxBlocks - 1, MaxRefs, MaxFields)
    /\ Start("outgoing", {AnnotateOptions})

\* Sort of part_002 with annotate on
SpecAnnotate == InitAnnotate /\ [][Next]_vars

\* the annotation lines of text between the places a and b, in their order
AnnotationsBetween(text, a, b) ==
    LET IsAnnotation(t) == t.tk = "com" /\ t.text \in AnnotationLines
    IN SelectSeq(SubSeq(text, a + 1, b - 1), IsAnnotation)

\* the other comment lines of text between the places a and b, in their order
OtherCommentsBetween(text, a, b) ==
    LET IsOther(t) == t.tk = "com" /\ t.text \notin AnnotationLines
    IN SelectSeq(SubSeq(text, a + 1, b - 1), IsOther)

-----------------------------------------------------------------------------
(* Section headers: stripSectionHeaders *)

\* a three-line banner comment with the label line label
BannerComment(label) == <<Com(Banner), NL, Com(label), NL, Com(Banner), NL>>

\* the label of a banner an author wrote
HandLabel == "// My Section"

\* the comments in front of a declaration of the files below: banners with a
\* current label, with a historical one and with a label of the author's, and
\* a plain comment
BannerLeads ==
    {BannerComment("// Types unused by RPCs"), BannerComment("// Core Types"),
     BannerComment(HandLabel), <<Com("// c"), NL>>}

\* text is two messages, in either order of their names, with at most k
\* comments in all in front of them
IsBannerFile(text, k) ==
    \E n1 \in 0..k : \E n2 \in 0..(k - n1) :
       \E g1 \in [1..n1 -> BannerLeads], g2 \in [1..n2 -> BannerLeads] :
          \E names \in {<<"A", "B">>, <<"B", "A">>} :
             text = Flatten(g1) \o <<DeclTok("message", names[1], <<>>, <<>>), NL>>
                    \o Flatten(g2) \o <<DeclTok("message", names[2], <<>>, <<>>), NL>>

InitBanners ==
    /\ IsBannerFile(content, MaxFields)
    /\ Start("outgoing", {DefaultOptions, DividerOptions})

\* Sort of part_002 with section-headers off, preserve-dividers off and on
SpecBanners == InitBanners /\ [][Next]_vars

\* the places between a and b where a banner with the label line label starts
BannersBetween(text, a, b, labels) ==
    {p \in (a + 1)..(b - 6) :
        /\ text[p] = Com(Banner) /\ text[p + 1] = NL
        /\ text[p + 2].tk = "com" /\ text[p + 2].text \in labels /\ text[p + 3] = NL
        /\ text[p + 4] = Com(Banner) /\ text[p + 5] = NL}

\* C25: in the output of Sort no declaration has a banner with a recognized
\* label in front of it, and it has as many banners with the author's label
\* in front of it as it has in the input.
C25_OnlyKnownBannersStripped ==
    (pc = "done" /\ err = "nil") =>
        \A i \in DeclAt(content) :
           \E j \in DeclAt(output) :
              /\ output[j] = content[i]
              /\ BannersBetween(output, PrevDecl(output, j), j, HeaderLabels) = {}
              /\ Cardinality(BannersBetween(output, PrevDecl(output, j), j, {HandLabel}))
                    = Cardinality(BannersBetween(content, PrevDecl(content, i), i, {HandLabel}))

-----------------------------------------------------------------------------
(* The ordered list: emitWithHelpers returns, no block twice *)

InitOrdered ==
    /\ \/ IsMessageFile(content, MaxBlocks + 1, MaxRefs)
       \/ IsServedFile(content, MaxBlocks - 1, MaxRefs)
       \/ IsFieldFile(content, MaxBlocks - 1, MaxFields, MaxRefs)
       \/ IsClashFile(content)
    /\ policy \in {"outgoing", "incoming"}
    /\ Start(policy, {DefaultOptions})

\* Sort of part_001 and of part_002 on files with reference cycles, with
\* fields of undeclared types and with a service named like a message
SpecOrdered == InitOrdered /\ [][Next]_vars

\* C26: every call of Sort on a scanned file returns: no emitWithHelpers call
\* recurses without end, and no block stands twice in the ordered list.
C26_OrderedOnce ==
    pc = "done" =>
        /\ err # "overflow"
        /\ \A a \in DOMAIN ordered, b \in DOMAIN ordered :
              a # b => ordered[a] # ordered[b]

\* a call that returned an ordered list for three helpers, each the consumer
\* of the next and the last the consumer of the first
C26_Witness ==
    /\ pc = "done" /\ err = "nil"
    /\ \E i \in Helpers, j \in Helpers, k \in Helpers :
          /\ body[i].Consumer = body[j].Name
          /\ body[j].Consumer = body[k].Name
          /\ body[k].Consumer = body[i].Name
          /\ Cardinality({i, j, k}) = 3
          /\ {i, j, k} \subseteq Range(ordered)

-----------------------------------------------------------------------------
(* The scanner: consumeTrailingComment *)

\* what follows a declaration of the files below: the end of its line, with
\* or without a comment on the line, and then a comment line of its own or none
LineTails ==
    {<<NL>>, <<Com("// t"), NL>>, <<NL, Com("// c"), NL>>, <<Com("// t"), NL, Com("// c"), NL>>}

\* text is at most k messages A, B, .. in ascending or descending order, each
\* followed by one of the line tails; the last line may lack its newline
IsTrailingFile(text, k) ==
    \E m \in 1..k :
       \E names \in {SortedSeq(MsgNames(m)),
                     [i \in 1..m |-> SortedSeq(MsgNames(m))[m + 1 - i]]} :
          \E tails \in [1..m -> LineTails], cut \in {0, 1} :
             LET whole == Flatten([i \in 1..m |->
                                     <<DeclTok("message", names[i], <<>>, <<>>)>> \o tails[i]])
             IN text = SubSeq(whole, 1, Len(whole) - cut)

InitTrailing == IsTrailingFile(content, MaxBlocks) /\ Start("outgoing", {DefaultOptions})

\* ScanFile, called by Sort of part_002, on files with comments behind declarations
SpecTrailing == InitTrailing /\ [][Next]_vars

\* C27: the text of a scanned declaration is the declaration and the comment
\* on its line, if there is one, without the newline that ends the line; the
\* newline begins the comments of the block that follows.
C27_NewlineLeft ==
    (pc = "done" /\ err = "nil") =>
        LET scanned == ScanFile(content).blocks
        IN \A k \in DOMAIN scanned :
              scanned[k].Kind = "message" =>
                 \E i \in DeclAt(content) :
                    /\ content[i].name = scanned[k].Name
                    /\ scanned[k].DeclText =
                          IF i + 1 <= Len(content) /\ content[i + 1].tk = "com"
                          THEN <<content[i], content[i + 1]>> ELSE <<content[i]>>
                    /\ (k + 1 <= Len(scanned) /\ LineEnd(content, i) <= Len(content))
                          => (scanned[k + 1].Comments # <<>>
                              /\ scanned[k + 1].Comments[1] = NL)

-----------------------------------------------------------------------------
(* scanner.go on byte strings: the cursor *)

\* A byte string is a sequence of one-character strings; pos counts from 0 as
\* in the source, so the byte at pos is text[pos + 1], and content[a:b] is
\* SubSeq(text, a + 1, b), defined for 0 <= a <= b <= len(content).

\* s.atEnd()
atEnd(text, p) == p >= Len(text)

\* s.peekAt(offset), "" for the zero byte
peekAt(text, p, offset) == IF p + offset >= Len(text) THEN "" ELSE text[p + offset + 1]

RECURSIVE skipToEndOfLine(_, _)
skipToEndOfLine(text, p) ==
    IF atEnd(text, p) THEN p
    ELSE IF text[p + 1] = "\n" THEN p + 1
         ELSE skipToEndOfLine(text, p + 1)

RECURSIVE skipBlockLoop(_, _)
\* the loop of skipBlockComment
skipBlockLoop(text, p) ==
    IF atEnd(text, p) THEN p
    ELSE IF text[p + 1] = "*" /\ peekAt(text, p, 1) = "/" THEN p + 2
         ELSE skipBlockLoop(text, p + 1)

skipBlockComment(text, p) == skipBlockLoop(text, p + 2)

RECURSIVE skipStringLoop(_, _, _)
\* the loop of skipString: two bytes on after a backslash, whatever follows it
skipStringLoop(text, p, quote) ==
    IF atEnd(text, p) THEN p
    ELSE IF text[p + 1] = "\\" THEN skipStringLoop(text, p + 2, quote)
         ELSE IF text[p + 1] = quote THEN p + 1
              ELSE skipStringLoop(text, p + 1, quote)

skipString(text, p, quote) == skipStringLoop(text, p + 1, quote)

skipOneToken(text, p) ==
    IF text[p + 1] \in {"\"", "'"} THEN skipString(text, p, text[p + 1])
    ELSE IF text[p + 1] = "/" /\ peekAt(text, p, 1) = "/" THEN skipToEndOfLine(text, p)
    ELSE IF text[p + 1] = "/" /\ peekAt(text, p, 1) = "*" THEN skipBlockComment(text, p)
    ELSE p + 1

RECURSIVE readUntilSemicolon(_, _)
readUntilSemicolon(text, p) ==
    IF atEnd(text, p) THEN p
    ELSE IF text[p + 1] = ";" THEN p + 1
         ELSE readUntilSemicolon(text, skipOneToken(text, p))

RECURSIVE readUntilSemicolonWithBraces(_, _, _)
readUntilSemicolonWithBraces(text, p, depth) ==
    IF atEnd(text, p) THEN p
    ELSE LET c == text[p + 1]
         IN IF c \in {"\"", "'"}
            THEN readUntilSemicolonWithBraces(text, skipString(text, p, c), depth)
            ELSE IF c = "/" /\ peekAt(text, p, 1) = "/"
            THEN readUntilSemicolonWithBraces(text, skipToEndOfLine(text, p), depth)
            ELSE IF c = "/" /\ peekAt(text, p, 1) = "*"
            THEN readUntilSemicolonWithBraces(text, skipBlockComment(text, p), depth)
            ELSE IF c = "{" THEN readUntilSemicolonWithBraces(text, p + 1, depth + 1)
            ELSE IF c = "}" THEN readUntilSemicolonWithBraces(text, p + 1, depth - 1)
            ELSE IF c = ";" /\ depth <= 0 THEN p + 1
            ELSE readUntilSemicolonWithBraces(text, p + 1, depth)

RECURSIVE readBracedBytes(_, _, _)
\* readBracedBlock on a byte string
readBracedBytes(text, p, depth) ==
    IF atEnd(text, p) THEN p
    ELSE LET c == text[p + 1]
         IN IF c \in {"\"", "'"} THEN readBracedBytes(text, skipString(text, p, c), depth)
            ELSE IF c = "/" /\ peekAt(text, p, 1) = "/"
            THEN readBracedBytes(text, skipToEndOfLine(text, p), depth)
            ELSE IF c = "/" /\ peekAt(text, p, 1) = "*"
            THEN readBracedBytes(text, skipBlockComment(text, p), depth)
            ELSE IF c = "{" THEN readBracedBytes(text, p + 1, depth + 1)
            ELSE IF c = "}"
            THEN IF depth - 1 = 0 THEN p + 1 ELSE readBracedBytes(text, p + 1, depth - 1)
            ELSE readBracedBytes(text, p + 1, depth)

RECURSIVE skipBlanks(_, _)
\* the first loop of consumeTrailingComment
skipBlanks(text, p) ==
    IF ~atEnd(text, p) /\ text[p + 1] \in {" ", "\t"} THEN skipBlanks(text, p + 1) ELSE p

\* consumeTrailingComment on a byte string: the position behind the comment
\* on the line, or the position it was called at
consumeTrailingBytes(text, p) ==
    LET q == skipBlanks(text, p)
    IN IF ~atEnd(text, q) /\ text[q + 1] = "/" /\ peekAt(text, q, 1) = "/"
       THEN skipToEndOfLine(text, q) ELSE p

RECURSIVE collectBytes(_, _)
\* collectComments on a byte string: the position of the first byte that is
\* neither whitespace nor part of a comment
collectBytes(text, p) ==
    IF atEnd(text, p) THEN p
    ELSE LET c == text[p + 1]
         IN IF c \in {" ", "\t", "\r", "\n"} THEN collectBytes(text, p + 1)
            ELSE IF c = "/" /\ peekAt(text, p, 1) = "/"
            THEN collectBytes(text, skipToEndOfLine(text, p))
            ELSE IF c = "/" /\ peekAt(text, p, 1) = "*"
            THEN collectBytes(text, skipBlockComment(text, p))
            ELSE p

\* a collectComments that keeps the comments and leaves out the whitespace
collectNoBlanks(text, p) ==
    LET NotBlank(c) == c \notin {" ", "\t", "\r", "\n"}
    IN SelectSeq(SubSeq(text, p + 1, collectBytes(text, p)), NotBlank)

RECURSIVE collectBuf(_, _)
\* collectComments on a byte string: the text it returns, written to buf byte
\* by byte for whitespace and slice by slice for comments
collectBuf(text, p) ==
    IF atEnd(text, p) THEN <<>>
    ELSE LET c == text[p + 1]
         IN IF c \in {" ", "\t", "\r", "\n"} THEN <<c>> \o collectBuf(text, p + 1)
            ELSE IF c = "/" /\ peekAt(text, p, 1) = "/"
            THEN SubSeq(text, p + 1, skipToEndOfLine(text, p))
                 \o collectBuf(text, skipToEndOfLine(text, p))
            ELSE IF c = "/" /\ peekAt(text, p, 1) = "*"
            THEN SubSeq(text, p + 1, skipBlockComment(text, p))
                 \o collectBuf(text, skipBlockComment(text, p))
            ELSE <<>>

isIdentChar(c) ==
    c \in {"a", "b", "c", "d", "e", "f", "g", "h", "i", "j", "k", "l", "m", "n", "o", "p", "q",
           "r", "s", "t", "u", "v", "w", "x", "y", "z", "A", "B", "C", "D", "E", "F", "G", "H",
           "I", "J", "K", "L", "M", "N", "O", "P", "Q", "R", "S", "T", "U", "V", "W", "X", "Y",
           "Z", "0", "1", "2", "3", "4", "5", "6", "7", "8", "9", "_"}

\* the keywords of matchKeyword, in its order
keywords ==
    <<[kw |-> "syntax", bytes |-> <<"s", "y", "n", "t", "a", "x">>],
      [kw |-> "package", bytes |-> <<"p", "a", "c", "k", "a", "g", "e">>],
      [kw |-> "import", bytes |-> <<"i", "m", "p", "o", "r", "t">>],
      [kw |-> "option", bytes |-> <<"o", "p", "t", "i", "o", "n">>],
      [kw |-> "message", bytes |-> <<"m", "e", "s", "s", "a", "g", "e">>],
      [kw |-> "enum", bytes |-> <<"e", "n", "u", "m">>],
      [kw |-> "service", bytes |-> <<"s", "e", "r", "v", "i", "c", "e">>],
      [kw |-> "extend", bytes |-> <<"e", "x", "t", "e", "n", "d">>]>>

\* matchKeyword on a byte string: the first keyword the rest starts with,
\* followed by a byte that is no identifier character; "" for none
matchKeywordBytes(text, p) ==
    LET rest == SubSeq(text, p + 1, Len(text))
        hits == {k \in DOMAIN keywords :
                    /\ HasPrefix(rest, keywords[k].bytes)
                    /\ Len(rest) > Len(keywords[k].bytes)
                    /\ ~isIdentChar(rest[Len(keywords[k].bytes) + 1])}
    IN IF hits = {} THEN ""
       ELSE keywords[CHOOSE k \in hits : \A l \in hits : k <= l].kw

\* readDeclaration on a byte string. The slice content[start:pos] with pos
\* behind the end of the input is a run-time panic that nothing recovers.
readDeclarationBytes(text, p) ==
    LET keyword == matchKeywordBytes(text, p)
        read == IF keyword \in {"syntax", "package", "import"} THEN readUntilSemicolon(text, p)
                ELSE IF keyword = "option" THEN readUntilSemicolonWithBraces(text, p, 0)
                ELSE readBracedBytes(text, p, 0)
    IN IF keyword = "" THEN [err |-> "parse", pos |-> p, block |-> <<>>]
       ELSE IF read > Len(text) THEN [err |-> "panic", pos |-> read, block |-> <<>>]
       ELSE LET after == consumeTrailingBytes(text, read)
            IN [err |-> "nil", pos |-> after,
                block |-> [Kind |-> keyword,
                           DeclText |-> SubSeq(text, p + 1, read) \o SubSeq(text, read + 1, after)]]

RECURSIVE scanBytes(_, _, _)
\* scan on a byte string from position p on, with the blocks read so far
scanBytes(text, p, acc) ==
    IF atEnd(text, p) THEN [err |-> "nil", pos |-> p, blocks |-> acc]
    ELSE LET q == collectBytes(text, p)
             comments == collectBuf(text, p)
         IN IF atEnd(text, q)
            THEN [err |-> "nil", pos |-> q,
                  blocks |-> IF \E i \in DOMAIN comments :
                                   comments[i] \notin {" ", "\t", "\r", "\n"}
                             THEN Append(acc, [Kind |-> "comment", Comments |-> comments,
                                               DeclText |-> <<>>])
                             ELSE acc]
            ELSE LET d == readDeclarationBytes(text, q)
                 IN IF d.err # "nil" THEN [err |-> d.err, pos |-> d.pos, blocks |-> <<>>]
                    ELSE scanBytes(text, d.pos,
                                   Append(acc, [Kind |-> d.block.Kind, Comments |-> comments,
                                                DeclText |-> d.block.DeclText]))

\* ScanFile on a byte string: the error, the blocks and the final pos
ScanFileBytes(text) == scanBytes(text, 0, <<>>)

\* the bytes that follow the keyword in the files below
Bytes == {" ", "\"", "\\", "{", "}", ";", "/", "*", "\n", "x"}

\* text is the keyword message or import followed by at most k bytes
IsByteFile(text, k) ==
    \E kw \in {5, 3} : \E n \in 1..k : \E rest \in [1..n -> Bytes] :
       text = keywords[kw].bytes \o rest

InitBytes == IsByteFile(content, MaxBytes) /\ Start("outgoing", {DefaultOptions})

\* the call ScanFile(content) on a byte string
ScanBytesCall ==
    /\ pc = "start"
    /\ LET r == ScanFileBytes(content)
       IN blocks' = r.blocks /\ err' = r.err /\ cursor' = r.pos
    /\ pc' = "scanned"
    /\ UNCHANGED <<policy, content, opts, hdr, body, refCounts, refGraph, parts, ordered,
                   output, warnings, second, serviceText, sortedText, verdict>>

NextBytes == ScanBytesCall

\* ScanFile on byte strings that begin with a keyword
SpecBytes == InitBytes /\ [][NextBytes]_vars

\* C28: when ScanFile ends the cursor is within the input and ScanFile has
\* returned blocks or a parse error: no slice it took was out of range.
C28_CursorInRange ==
    pc = "scanned" => (0 <= cursor /\ cursor <= Len(content) /\ err \in {"nil", "parse"})

-----------------------------------------------------------------------------
(* ScanFile partitions its input *)

\* the pieces the files below are made of: a declaration, a declaration
\* that is not closed, a blank, a newline, a line comment, a block comment
Pieces29 ==
    {<<"e", "n", "u", "m", " ", "A", "{", "}">>, <<"e", "n", "u", "m", " ", "B", "{">>,
     <<" ">>, <<"\n">>, <<"/", "/", "c">>, <<"/", "*", "c", "*", "/">>}

\* text is at most k of the pieces, one after the other
IsPieceFile(text, k) ==
    \E n \in 0..k : \E ps \in [1..n -> Pieces29] : text = Flatten(ps)

InitPieces == IsPieceFile(content, MaxBytes) /\ Start("outgoing", {DefaultOptions})

\* ScanFile on byte strings of declarations, comments and whitespace
SpecPieces == InitPieces /\ [][NextBytes]_vars

\* the Comments and the DeclText of every block, in the order of the blocks
BlockTexts(bs) == Flatten([k \in DOMAIN bs |-> bs[k].Comments \o bs[k].DeclText])

\* C29: when ScanFile succeeds, the Comments and DeclText of its blocks, one
\* after the other, are the input; only whitespace behind the last
\* declaration, with no comment in it, is left out.
C29_Partition ==
    (pc = "scanned" /\ err = "nil") =>
        LET joined == BlockTexts(blocks)
        IN /\ Len(joined) <= Len(content)
           /\ joined = SubSeq(content, 1, Len(joined))
           /\ \A i \in (Len(joined) + 1)..Len(content) : content[i] \in {" ", "\t", "\r", "\n"}
           /\ Len(joined) < Len(content) =>
                 (blocks = <<>> \/ blocks[Len(blocks)].Kind # "comment")

\* a successful scan of two declarations, the second with a comment in
\* front of it and whitespace behind it that is left out
C29_Witness ==
    /\ pc = "scanned" /\ err = "nil"
    /\ Len(blocks) = 2 /\ blocks[2].Kind = "enum"
    /\ "*" \in Range(blocks[2].Comments)
    /\ Len(BlockTexts(blocks)) < Len(content)

-----------------------------------------------------------------------------
(* Canonical order: the same declarations in another order *)

\* the texts that hold the declarations of text, one on a line, with the
\* messages and enums in any order and the services at their places
Reorderings(text) ==
    LET ds == Decls(text)
        types == {i \in DOMAIN ds : ds[i].kind \in {"message", "enum"}}
        slots == SeqFilter(Indices(ds), types)
    IN {Render([i \in DOMAIN ds |->
                   IF i \in types
                   THEN ds[pm[CHOOSE k \in DOMAIN slots : slots[k] = i]] ELSE ds[i]]) :
          pm \in Perms(types)}

InitCanonical ==
    /\ IsMessageFile(content, MaxBlocks, MaxRefs) \/ IsServedFile(content, MaxBlocks - 1, MaxRefs)
    /\ Start("outgoing", {DefaultOptions})

\* the caller hands a reordering of the text to Sort
SortReordered ==
    /\ pc = "done"
    /\ \E text \in Reorderings(content) : \E r \in Sort(policy, opts, text) : second' = r
    /\ pc' = "reordered"
    /\ UNCHANGED <<policy, content, opts, blocks, err, hdr, body, refCounts, refGraph,
                   parts, ordered, output, warnings, serviceText, sortedText, verdict, cursor>>

NextCanonical == SortCall \/ SortReordered

\* Sort of part_002 on a file, then on the same declarations in another order
SpecCanonical == InitCanonical /\ [][NextCanonical]_vars

\* C30: Sort returns the same text for two inputs that hold the same
\* declarations and differ only in the order of their messages and enums.
C30_Canonical ==
    (pc = "reordered" /\ err = "nil" /\ second.err = "nil") => second.output = output

=============================================================================
